---------------------------- MODULE Spec2Model ----------------------------
(***************************************************************************)
(* Model of the license exporter's backend adapters (FlexLM, RLM, LM-X,    *)
(* DSLS, HASP, Licman20, OLicense) and of the exclusion / expiration       *)
(* aggregation / server selection code each of them carries.               *)
(*                                                                         *)
(* One fetch of one configured license source is one action.  The state    *)
(* holds the source's configuration (lic), the replies the external tools  *)
(* gave during the fetch (reply), the gauges the fetch wrote and the       *)
(* value fetch returned.  A line of tool output that matches one of the    *)
(* adapter's regular expressions is a record of its capture groups; a      *)
(* line that matches none is the record [k |-> "other"].                   *)
(***************************************************************************)
EXTENDS Integers, Sequences, FiniteSets, TLC

(* Largest number of lines / records / elements in one reply.              *)
MaxRecords == 3

(* the same budget for a fetch metrics() calls, the sources of one         *)
(* configuration, and the requests served                                  *)
ScrapeRecords == 1
MaxSources == 2
MaxScrapes == 2

(* f64::INFINITY: larger than every timestamp.                              *)
INFINITY == 2147483647

Features == {"fA", "fB"}
Counts   == {1, 2}

SeqsUpTo(S, n) == UNION {[1..k -> S] : k \in 0..n}

Range(s) == {s[i] : i \in DOMAIN s}

(***************************************************************************)
(* Gauge vectors: a function from label tuples to the value last set.      *)
(***************************************************************************)
NoGauge == <<>>

Set(g, labels, v) ==
  [l \in (DOMAIN g) \cup {labels} |-> IF l = labels THEN v ELSE g[l]]

(* HashMap entry(k).or_insert(0) += n                                      *)
AddTo(m, k, n) ==
  [l \in (DOMAIN m) \cup {k} |-> IF l = k
                                  THEN (IF k \in DOMAIN m THEN m[k] ELSE 0) + n
                                  ELSE m[l]]

(* HashMap entry(k).or_insert(v)                                           *)
OrInsert(m, k, v) == IF k \in DOMAIN m THEN m ELSE Set(m, k, v)

(***************************************************************************)
(* license.rs                                                              *)
(***************************************************************************)
is_excluded(excludes, feature) ==
  \E i \in DOMAIN excludes : excludes[i] = feature


(***************************************************************************)
(* The source's configuration.  excluded_features is a sequence of names   *)
(* (None is the empty one); export_user is "None", "false" or "true".     *)
(***************************************************************************)
Kinds == {"flexlm", "rlm", "lmx", "dsls", "hasp", "licman20", "olicense"}

Excludes == {<<>>, <<"fA">>}

ExportUser == {"None", "false", "true"}

(***************************************************************************)
(* Replies of the transports.  A command either cannot be spawned, exits   *)
(* with a non-zero code, or exits with 0 and the lines it wrote.           *)
(***************************************************************************)
CommandFailures == {[status |-> "spawn"], [status |-> "nonzero"]}

CommandOk(lines) == [status |-> "ok", lines |-> lines]

NotRun == [status |-> "notrun"]

(***************************************************************************)
(* Dates.  NaiveDateTime::parse_from_str(...).timestamp(): the seconds     *)
(* since the epoch of the date strings the model draws as Ok(seconds), Err *)
(* for a string the pattern rejects.                                       *)
(***************************************************************************)
Ok(v) == <<v>>

Err == <<>>

parse_from_str(s, fmt) ==
  CASE fmt = "%d-%b-%Y %H:%M:%S" /\ s = "31-dec-2030 00:00:00" -> Ok(1924905600)
    [] fmt = "%d-%b-%Y %H:%M:%S" /\ s = "31-dec-2031 00:00:00" -> Ok(1956441600)
    [] fmt = "%Y-%m-%d %H:%M:%S" /\ s = "2030-12-31 00:00:00" -> Ok(1924905600)
    [] fmt = "%Y-%m-%d %H:%M:%S" /\ s = "2031-12-31 00:00:00" -> Ok(1956441600)
    [] fmt = "%a %b %d, %Y %H:%M" /\ s = "Tue Dec 31, 2030 00:00" -> Ok(1924905600)
    [] fmt = "%a %b %d, %Y %H:%M" /\ s = "Wed Dec 31, 2031 00:00" -> Ok(1956441600)
    [] OTHER -> Err

(* format!("{} 00:00:00", date)                                             *)
Midnight(date) ==
  CASE date = "31-dec-2030" -> "31-dec-2030 00:00:00"
    [] date = "31-dec-2031" -> "31-dec-2031 00:00:00"
    [] date = "2030-12-31" -> "2030-12-31 00:00:00"
    [] date = "2031-12-31" -> "2031-12-31 00:00:00"
    [] OTHER -> date

(***************************************************************************)
(* f64::to_string of an expiration: "inf" for infinity, else the decimal   *)
(* digits of the (integral) timestamp.  A string is a tuple of characters. *)
(***************************************************************************)
DigitChar == <<"0", "1", "2", "3", "4", "5", "6", "7", "8", "9">>

RECURSIVE Decimal(_)
Decimal(n) ==
  IF n < 10 THEN <<DigitChar[n + 1]>>
  ELSE Append(Decimal(n \div 10), DigitChar[(n % 10) + 1])

to_string(x) == IF x = INFINITY THEN <<"i", "n", "f">> ELSE Decimal(x)

(***************************************************************************)
(* The expiration code every adapter ends with: the indexed expiration     *)
(* gauge, then the aggregation by expiration date.                         *)
(***************************************************************************)
(* the loop with index += 1 moved above the exclusion check                *)
RECURSIVE expiration_loop_counting(_, _, _)
expiration_loop_counting(expiring, excludes, index) ==
  IF expiring = <<>> THEN <<>>
  ELSE IF is_excluded(excludes, Head(expiring).feature)
       THEN expiration_loop_counting(Tail(expiring), excludes, index + 1)
       ELSE <<[index |-> index,
               licenses |-> Head(expiring).license_count,
               name |-> Head(expiring).feature,
               value |-> Head(expiring).expiration]>>
            \o expiration_loop_counting(Tail(expiring), excludes, index + 1)

(* for entry in expiring { if is_excluded {continue}; set(index); index += 1 } *)
RECURSIVE expiration_loop(_, _, _)
expiration_loop(expiring, excludes, index) ==
  IF expiring = <<>> THEN <<>>
  ELSE IF is_excluded(excludes, Head(expiring).feature)
       THEN expiration_loop(Tail(expiring), excludes, index)
       ELSE <<[index |-> index,
               licenses |-> Head(expiring).license_count,
               name |-> Head(expiring).feature,
               value |-> Head(expiring).expiration]>>
            \o expiration_loop(Tail(expiring), excludes, index + 1)

(* the grouping with insert(key, vec![e]) in place of or_insert + push     *)
RECURSIVE aggregate_overwriting(_)
aggregate_overwriting(expiring) ==
  IF expiring = <<>> THEN <<>>
  ELSE LET rest == aggregate_overwriting(SubSeq(expiring, 1, Len(expiring) - 1))
           e == expiring[Len(expiring)]
       IN  Set(rest, to_string(e.expiration), <<e>>)

(* aggregated_expiration.entry(expiration.to_string()).or_insert(vec![]).push(e) *)
RECURSIVE aggregate(_)
aggregate(expiring) ==
  IF expiring = <<>> THEN <<>>
  ELSE LET rest == aggregate(SubSeq(expiring, 1, Len(expiring) - 1))
           e == expiring[Len(expiring)]
           key == to_string(e.expiration)
       IN  Set(rest, key, Append(IF key \in DOMAIN rest THEN rest[key] ELSE <<>>, e))

(* the dates left in the order they were pushed                            *)
sort_by_skipped(dates) == dates

(* expiration_dates.sort_by(|a, b| a.partial_cmp(b).unwrap())              *)
RECURSIVE sort_by(_)
sort_by(dates) ==
  IF dates = <<>> THEN <<>>
  ELSE LET i == CHOOSE i \in DOMAIN dates :
                  /\ \A j \in DOMAIN dates : dates[i] <= dates[j]
                  /\ \A j \in 1..(i - 1) : dates[j] # dates[i]
       IN  <<dates[i]>>
           \o sort_by([k \in 1..(Len(dates) - 1) |->
                          IF k < i THEN dates[k] ELSE dates[k + 1]])

(* expiration_dates.dedup_by(|a, b| a == b): drops an element equal to the  *)
(* one before it.                                                          *)
RECURSIVE dedup_by(_)
dedup_by(dates) ==
  IF Len(dates) <= 1 THEN dates
  ELSE LET rest == dedup_by(SubSeq(dates, 1, Len(dates) - 1))
       IN  IF dates[Len(dates)] = rest[Len(rest)] THEN rest
           ELSE Append(rest, dates[Len(dates)])

RECURSIVE license_sum(_)
license_sum(v) ==
  IF v = <<>> THEN 0 ELSE Head(v).license_count + license_sum(Tail(v))

(* for exp in expiration_dates { if let Some(v) = aggregated.get(exp_str)  *)
(*   { set(features, index, licenses); index += 1 } else { warn } }        *)
RECURSIVE aggregation_loop(_, _, _)
aggregation_loop(dates, aggregated, index) ==
  IF dates = <<>> THEN <<>>
  ELSE LET exp_str == to_string(Head(dates)) IN
       IF exp_str \in DOMAIN aggregated
       THEN <<[index |-> index,
               features |-> Len(aggregated[exp_str]),
               licenses |-> license_sum(aggregated[exp_str]),
               value |-> Head(dates)]>>
            \o aggregation_loop(Tail(dates), aggregated, index + 1)
       ELSE aggregation_loop(Tail(dates), aggregated, index)

expiration_dates_of(expiring) == [i \in DOMAIN expiring |-> expiring[i].expiration]

aggregated_gauge(expiring) ==
  aggregation_loop(dedup_by(sort_by(expiration_dates_of(expiring))),
                   aggregate(expiring), 0)


(***************************************************************************)
(* What one fetch wrote and returned.  issued, used, users and status are  *)
(* gauge vectors; expiration and aggregated are the expiration gauges in   *)
(* the order they were set; expiring is the list of expiration records the *)
(* fetch collected; queried is the servers in the order they were queried  *)
(* and exported is the servers whose reply was turned into feature gauges; *)
(* transports is the queries the fetch sent to its transport (a command or *)
(* an HTTP GET), in the order it sent them, each named by what it asks     *)
(* for.  result is "Ok" or "Err", the value fetch returned, or "panic"     *)
(* when fetch unwound instead of returning.                                *)
(***************************************************************************)
Nothing ==
  [result |-> "Ok", issued |-> NoGauge, used |-> NoGauge, users |-> NoGauge,
   status |-> NoGauge, expiration |-> <<>>, aggregated |-> <<>>,
   expiring |-> <<>>, queried |-> <<>>, exported |-> <<>>, transports |-> <<>>]

Commands(L, n) == CommandFailures \cup {CommandOk(l) : l \in SeqsUpTo(L, n)}

Lines(cmd) == IF cmd.status = "ok" THEN Len(cmd.lines) ELSE 0

(***************************************************************************)
(* The state: the configured source, the replies of the transports during  *)
(* its fetch, and what the fetch wrote and returned ("pending" before).    *)
(* For a request served by exporter::metrics: cfg is the configured        *)
(* sources in the order metrics() walks them, pc its position (0 outside   *)
(* a request, i inside the i-th call of fetch or right after it, one more  *)
(* than the number of sources at the encoder; -1 when a fetch is looked at *)
(* on its own), registry the series of REGISTRY for each source, trace     *)
(* the calls, returns and the encoding of the request served last, text    *)
(* the body it returned (a sequence of one, empty when it returned none)   *)
(* and scrapes the number of requests ended.  req is the request received  *)
(* last and response the status code and the payload it was answered with. *)
(* For requests served at the same time by the route of main.rs: tasks is  *)
(* where each of them is, with what its fetch read and the gauge vectors   *)
(* it has still to set, and writer the request that set each vector last.  *)
(* For a parsing function looked at on its own: input is the text it is    *)
(* given and output what it returns (done is FALSE before the call).       *)
(***************************************************************************)
VARIABLES source, reply, snapshot, cfg, pc, registry, trace, text, scrapes,
          req, response, tasks, writer, input, output

vars == <<source, reply, snapshot, cfg, pc, registry, trace, text, scrapes,
          req, response, tasks, writer, input, output>>

parsing == <<input, output>>

request == <<cfg, pc, registry, trace, text, scrapes, req, response, tasks, writer,
             parsing>>

sequential == <<source, reply, snapshot, pc, trace, text, scrapes, req, response,
                parsing>>

NotCalled == [done |-> FALSE]

(* constants.rs *)
DEFAULT_METRICS_PATH == "/metrics"
ROOT_HTML == "<html>..<h1>License exporter</h1>..</html>"
REPLY_METHOD_NOT_ALLOWED == "Method not allowed"
REPLY_NOT_FOUND == "Not found"

NoRequest == [method |-> "", url |-> ""]

(* status 0: no response was sent                                          *)
NoResponse == [status |-> 0, payload |-> ""]

Methods == {"GET", "POST"}
Urls == {"/", DEFAULT_METRICS_PATH, "/other"}

NoText == <<>>

(* the records the transports of one fetch return at most                  *)
Budget == IF pc = -1 THEN MaxRecords ELSE ScrapeRecords

(* license is the configured server list, split at ':' (config.rs allows   *)
(* one server or three for LM-X and DSLS).                                  *)
Licenses(kind) ==
  CASE kind \in {"lmx", "dsls", "olicense"} -> {<<"s1">>, <<"s1", "s2", "s3">>}
    [] kind = "licman20" -> {<<>>}
    [] OTHER -> {<<"s1">>}

(* The configurations drawn: every combination for a source with at most   *)
(* one server; no exclusion and per-user export for a three-server list.   *)
Sources ==
  {c \in UNION {[kind : {k}, excluded_features : Excludes,
                 export_user : ExportUser, license : Licenses(k)] : k \in Kinds} :
     Len(c.license) > 1 => c.export_user = "true" /\ c.excluded_features = <<>>}

Init ==
  /\ source \in Sources
  /\ reply = <<>>
  /\ snapshot = [Nothing EXCEPT !.result = "pending"]
  /\ cfg = <<>>
  /\ pc = -1
  /\ registry = <<>>
  /\ trace = <<>>
  /\ text = NoText
  /\ scrapes = 0
  /\ req = NoRequest
  /\ response = NoResponse
  /\ tasks = <<>>
  /\ writer = <<>>
  /\ input = <<>>
  /\ output = NotCalled

(***************************************************************************)
(* flexlm.rs                                                               *)
(***************************************************************************)
LmstatLines ==
  [k : {"usage"}, feature : Features, total : Counts, used : {1}]
  \cup [k : {"single"}, user : {"u1"}, version : {"v1"}]
  \cup [k : {"multi"}, user : {"u1"}, version : {"v1"}, count : {2}]
  \cup [k : {"servers"}, port : {"27000"}, server : {"srv1"}]
  \cup {[k |-> "noat"]}
  \cup [k : {"server"}, server : {"srv1"}, status : {"UP"},
        master : {"(MASTER)"}, version : {"v11.16"}]
  \cup {[k |-> "other"]}

FlexDates == {"31-dec-2030", "permanent", "1-jan-0", "01-jan-0000", "31-foo-2030"}

(* a line of lmstat -i as lmstat wrote it: its fields in the order feature, *)
(* version, count, expiration, vendor ("exp") or feature, version, count,  *)
(* vendor, expiration ("alt")                                              *)
LmstatExpirationLines ==
  [k : {"exp"}, feature : Features, version : {"1.0"}, count : {1},
   expiration : FlexDates, vendor : {"vend"}]
  \cup [k : {"alt"}, feature : Features, version : {"1.0"}, count : {2},
        expiration : {"31-dec-2030", "permanent"}, vendor : {"vend"}]

(* \w+ : a field without a hyphen *)
is_word(field) ==
  field \notin {"31-dec-2030", "1-jan-0", "01-jan-0000", "31-foo-2030"}

(* RE_LMSTAT_EXPIRATION, line 341, tried first: the fourth field is the    *)
(* expiration and the fifth, which must be \w+, the vendor;                *)
(* RE_LMSTAT_ALTERNATIVE_EXPIRATION, line 343, tried when the first does   *)
(* not match: the fourth field, which must be \w+, is the vendor and the   *)
(* fifth the expiration.  <<>> when neither matches.                       *)
flexlm_captures(line) ==
  LET fourth == IF line.k = "exp" THEN line.expiration ELSE line.vendor
      fifth == IF line.k = "exp" THEN line.vendor ELSE line.expiration
  IN  IF is_word(fifth)
      THEN <<[feature |-> line.feature, version |-> line.version,
              count |-> line.count, _expiration |-> fourth, vendor |-> fifth]>>
      ELSE IF is_word(fourth)
      THEN <<[feature |-> line.feature, version |-> line.version,
              count |-> line.count, _expiration |-> fifth, vendor |-> fourth]>>
      ELSE <<>>

(* lines 405-423 and 466-484 *)
flexlm_expiration(_expiration) ==
  IF \/ _expiration = "1-jan-0"
     \/ _expiration = "01-jan-0000"
     \/ _expiration = "permanent"
  THEN Ok(INFINITY)
  ELSE parse_from_str(Midnight(_expiration), "%d-%b-%Y %H:%M:%S")

(* the loop over the lines of lmstat -i, lines 385-508 *)
RECURSIVE flexlm_expiring(_)
flexlm_expiring(lines) ==
  IF lines = <<>> THEN <<>>
  ELSE LET capt == flexlm_captures(Head(lines))
           expiration == flexlm_expiration(capt[1]._expiration)
       IN  IF capt = <<>> \/ expiration = Err THEN flexlm_expiring(Tail(lines))
           ELSE <<[feature |-> capt[1].feature, version |-> capt[1].version,
                   license_count |-> capt[1].count, expiration |-> expiration[1],
                   vendor |-> capt[1].vendor]>>
                \o flexlm_expiring(Tail(lines))

(* for entry in expiring { set(index); index += 1 }, lines 510-533 *)
RECURSIVE flexlm_expiration_loop(_, _)
flexlm_expiration_loop(expiring, index) ==
  IF expiring = <<>> THEN <<>>
  ELSE <<[index |-> index,
          licenses |-> Head(expiring).license_count,
          name |-> Head(expiring).feature,
          value |-> Head(expiring).expiration]>>
       \o flexlm_expiration_loop(Tail(expiring), index + 1)

flexlm_fetch_expiration(out, cmd) ==
  IF cmd.status # "ok" THEN out
  ELSE LET expiring == flexlm_expiring(cmd.lines) IN
       [out EXCEPT !.expiring = expiring,
                   !.expiration = flexlm_expiration_loop(expiring, 1),
                   !.aggregated = aggregated_gauge(expiring)]

(* a usage line that sets the gauges and leaves the current feature alone  *)
flexlm_line_feature_kept(line, excludes, acc) ==
  CASE line.k = "usage" ->
         IF is_excluded(excludes, line.feature)
         THEN acc
         ELSE [acc EXCEPT !.issued = Set(@, <<line.feature>>, line.total),
                          !.used = Set(@, <<line.feature>>, line.used)]
    [] line.k = "single" ->
         [acc EXCEPT !.fuv = AddTo(@, <<acc.feature, line.user, line.version>>, 1)]
    [] line.k = "multi" ->
         [acc EXCEPT !.fuv = AddTo(@, <<acc.feature, line.user, line.version>>,
                                   line.count)]
    [] line.k = "noat" -> [acc EXCEPT !.panicked = TRUE]
    [] line.k = "servers" ->
         [acc EXCEPT !.license_server = <<line.port, line.server>>,
                     !.server_port = Set(@, line.server, line.port),
                     !.server_status = Set(@, line.server, 0),
                     !.server_master = Set(@, line.server, "false"),
                     !.server_version = Set(@, line.server, "")]
    [] line.k = "server" ->
         [acc EXCEPT !.server_status =
                        IF line.status = "UP" THEN Set(@, line.server, 1) ELSE @,
                     !.server_master =
                        IF line.master = "(MASTER)" THEN Set(@, line.server, "true")
                        ELSE @,
                     !.server_version = Set(@, line.server, line.version)]
    [] OTHER -> acc

(* One line of lmstat -a, lines 121-282.  acc holds the locals feature,    *)
(* fuv, license_server and the server_* maps, and the gauges written.  A   *)
(* "noat" line is a "License server status:" line with an entry that has   *)
(* no '@': srv_port[1] is then out of bounds and the thread panics.        *)
flexlm_line(line, excludes, acc) ==
  CASE line.k = "usage" ->
         IF is_excluded(excludes, line.feature)
         THEN [acc EXCEPT !.feature = line.feature]
         ELSE [acc EXCEPT !.feature = line.feature,
                          !.issued = Set(@, <<line.feature>>, line.total),
                          !.used = Set(@, <<line.feature>>, line.used)]
    [] line.k = "single" ->
         [acc EXCEPT !.fuv = AddTo(@, <<acc.feature, line.user, line.version>>, 1)]
    [] line.k = "multi" ->
         [acc EXCEPT !.fuv = AddTo(@, <<acc.feature, line.user, line.version>>,
                                   line.count)]
    [] line.k = "noat" -> [acc EXCEPT !.panicked = TRUE]
    [] line.k = "servers" ->
         [acc EXCEPT !.license_server = <<line.port, line.server>>,
                     !.server_port = Set(@, line.server, line.port),
                     !.server_status = Set(@, line.server, 0),
                     !.server_master = Set(@, line.server, "false"),
                     !.server_version = Set(@, line.server, "")]
    [] line.k = "server" ->
         [acc EXCEPT !.server_status =
                        IF line.status = "UP" THEN Set(@, line.server, 1) ELSE @,
                     !.server_master =
                        IF line.master = "(MASTER)" THEN Set(@, line.server, "true")
                        ELSE @,
                     !.server_version = Set(@, line.server, line.version)]
    [] OTHER -> acc

RECURSIVE flexlm_lines(_, _, _)
flexlm_lines(lines, excludes, acc) ==
  IF lines = <<>> \/ acc.panicked THEN acc
  ELSE flexlm_lines(Tail(lines), excludes, flexlm_line(Head(lines), excludes, acc))

(* lines 295-314 *)
flexlm_server_status(acc) ==
  [l \in {<<server,
            IF server \in DOMAIN acc.server_master
            THEN acc.server_master[server] ELSE "false",
            IF server \in DOMAIN acc.server_port
            THEN acc.server_port[server] ELSE "",
            IF server \in DOMAIN acc.server_version
            THEN acc.server_version[server] ELSE "">> :
          server \in DOMAIN acc.server_status}
     |-> acc.server_status[l[1]]]

(* fetch, lines 71-333 *)
flexlm_fetch(lic, stat, exp) ==
  IF stat.status # "ok"
  THEN [Nothing EXCEPT !.result = "Err", !.transports = <<"usage">>]
  ELSE
    LET acc == flexlm_lines(stat.lines, lic.excluded_features,
                 [feature |-> "", fuv |-> <<>>, license_server |-> <<>>,
                  server_port |-> <<>>, server_status |-> <<>>,
                  server_master |-> <<>>, server_version |-> <<>>,
                  issued |-> NoGauge, used |-> NoGauge, panicked |-> FALSE])
        out1 == [Nothing EXCEPT !.issued = acc.issued, !.used = acc.used,
                                !.transports = <<"usage">>]
        out2 == IF acc.license_server # <<>>
                THEN [flexlm_fetch_expiration(out1, exp)
                        EXCEPT !.transports = <<"usage", "expiration">>]
                ELSE out1
    IN  IF acc.panicked THEN [out1 EXCEPT !.result = "panic"]
        ELSE [out2 EXCEPT !.status = flexlm_server_status(acc),
                          !.users = IF lic.export_user # "None" THEN acc.fuv
                                    ELSE NoGauge]

(* whether the loop over the lines of lmstat -a runs to its end            *)
flexlm_completes(lines) ==
  \A i \in DOMAIN lines : lines[i].k # "noat"

(* The replies a FlexLM fetch can meet: lmstat -a, and lmstat -i when the  *)
(* first named a license server.                                           *)
HasServers(lines) == \E i \in DOMAIN lines : lines[i].k = "servers"

FlexlmFetch ==
  /\ source.kind = "flexlm"
  /\ snapshot.result = "pending"
  /\ \E stat \in Commands(LmstatLines, Budget) :
       \E exp \in IF /\ stat.status = "ok"
                     /\ HasServers(stat.lines)
                     /\ flexlm_completes(stat.lines)
                  THEN Commands(LmstatExpirationLines, Budget - Lines(stat))
                  ELSE {NotRun} :
         /\ reply' = [stat |-> stat, exp |-> exp]
         /\ snapshot' = flexlm_fetch(source, stat, exp)
  /\ UNCHANGED <<source, request>>

(***************************************************************************)
(* rlm.rs                                                                  *)
(***************************************************************************)
RlmDates == {"31-dec-2030", "permanent", "31-foo-2030"}

RlmstatLines ==
  [k : {"feature"}, feature : Features, version : {"1.0"}]
  \cup [k : {"usage"}, count : {1}, reserved : {0}, inuse : {1}, exp : RlmDates]
  \cup [k : {"usage"}, count : {2}, reserved : {0}, inuse : {1},
        exp : {"31-dec-2030"}]
  \cup {[k |-> "other"]}

(* user is the captured user@host, split at '@'                            *)
RlmCheckoutLines ==
  [k : {"checkout"}, feature : Features, version : {"1.0"}, user : {<<"u1", "h1">>}]
  \cup {[k |-> "other"]}

RlmStatusLines ==
  [k : {"status"}, port : {"5053"}, status : {"UP", "DOWN"}]
  \cup [k : {"version"}, version : {"v14.2"}]

(* lines 184-200 *)
rlm_expiration(_expiration) ==
  IF _expiration = "permanent" THEN Ok(INFINITY)
  ELSE parse_from_str(Midnight(_expiration), "%d-%b-%Y %H:%M:%S")

(* One line of rlmstat -l, lines 117-262.  acc holds the locals feature,   *)
(* version and expiring, and the gauges written.                           *)
rlm_line(line, excludes, acc) ==
  CASE line.k = "feature" ->
         IF is_excluded(excludes, line.feature)
         THEN [acc EXCEPT !.feature = "", !.version = line.version]
         ELSE [acc EXCEPT !.feature = line.feature, !.version = line.version]
    [] line.k = "usage" ->
         LET expiration == rlm_expiration(line.exp) IN
         IF acc.feature = "" \/ expiration = Err THEN acc
         ELSE [acc EXCEPT
                 !.expiring = Append(@, [feature |-> acc.feature,
                                         version |-> acc.version,
                                         license_count |-> line.count,
                                         expiration |-> expiration[1]]),
                 !.issued = Set(@, <<acc.feature, acc.version>>, line.count),
                 !.used = Set(@, <<acc.feature, acc.version>>, line.inuse)]
    [] OTHER -> acc

RECURSIVE rlm_lines(_, _, _)
rlm_lines(lines, excludes, acc) ==
  IF lines = <<>> THEN acc
  ELSE rlm_lines(Tail(lines), excludes, rlm_line(Head(lines), excludes, acc))

(* the loop over the lines of rlmstat -i, lines 387-421 *)
RECURSIVE rlm_fuv(_)
rlm_fuv(lines) ==
  IF lines = <<>> THEN <<>>
  ELSE LET line == lines[Len(lines)]
           rest == rlm_fuv(SubSeq(lines, 1, Len(lines) - 1))
       IN  IF line.k = "checkout"
           THEN AddTo(rest, <<line.feature, line.user[1], line.version>>, 1)
           ELSE rest

(* fetch_checkouts, lines 345-442: the per-user gauge it sets *)
rlm_fetch_checkouts(lic, cmd) ==
  IF cmd.status # "ok" THEN NoGauge
  ELSE LET fuv == rlm_fuv(cmd.lines) IN
       [l \in {x \in DOMAIN fuv : ~is_excluded(lic.excluded_features, x[1])}
          |-> fuv[l]]

(* the loop over one server's lines, lines 488-536 *)
RECURSIVE rlm_status_lines(_, _)
rlm_status_lines(lines, acc) ==
  IF lines = <<>> THEN acc
  ELSE LET line == Head(lines) IN
       rlm_status_lines(Tail(lines),
         CASE line.k = "status" ->
                [acc EXCEPT !.port = line.port,
                            !.status = IF line.status = "UP" THEN 1 ELSE @]
           [] line.k = "version" -> [acc EXCEPT !.version = line.version]
           [] OTHER -> acc)

(* fetch_status, lines 444-539: servers is lic.license split at ':', cmds  *)
(* the reply for each; a failing command ends the loop.                    *)
RECURSIVE rlm_fetch_status(_, _, _)
rlm_fetch_status(servers, cmds, gauge) ==
  IF servers = <<>> \/ Head(cmds).status # "ok" THEN gauge
  ELSE LET acc == rlm_status_lines(Head(cmds).lines,
                                   [port |-> "", status |-> 0, version |-> ""])
       IN  rlm_fetch_status(Tail(servers), Tail(cmds),
             Set(gauge, <<Head(servers), acc.port, acc.version>>, acc.status))

(* the status query sent although the usage query failed                  *)
rlm_transports_unguarded(lic, stat) ==
  <<"usage">>
  \o (IF stat.status = "ok" /\ lic.export_user = "true" THEN <<"checkouts">>
      ELSE <<>>)
  \o [i \in DOMAIN lic.license |-> "status"]

(* The commands fetch runs: rlmstat -l (lines 85-113, left with ? or bail! *)
(* when it fails), then fetch_checkouts when export_user is Some(true)     *)
(* (lines 264-273), then fetch_status, one rlmstat -a for each server of   *)
(* the license string (lines 275-280).                                     *)
rlm_transports(lic, stat) ==
  IF stat.status # "ok" THEN <<"usage">>
  ELSE <<"usage">>
       \o (IF lic.export_user = "true" THEN <<"checkouts">> ELSE <<>>)
       \o [i \in DOMAIN lic.license |-> "status"]

(* fetch, lines 64-343 *)
rlm_fetch(lic, stat, checkouts, status) ==
  IF stat.status # "ok"
  THEN [Nothing EXCEPT !.result = "Err", !.transports = rlm_transports(lic, stat)]
  ELSE
    LET acc == rlm_lines(stat.lines, lic.excluded_features,
                 [feature |-> "", version |-> "", expiring |-> <<>>,
                  issued |-> NoGauge, used |-> NoGauge])
    IN  [Nothing EXCEPT
           !.issued = acc.issued,
           !.used = acc.used,
           !.users = IF lic.export_user = "true"
                     THEN rlm_fetch_checkouts(lic, checkouts) ELSE NoGauge,
           !.status = rlm_fetch_status(lic.license, status, NoGauge),
           !.queried = lic.license,
           !.transports = rlm_transports(lic, stat),
           !.expiring = acc.expiring,
           !.expiration = expiration_loop(acc.expiring, lic.excluded_features, 1),
           !.aggregated = aggregated_gauge(acc.expiring)]

RlmFetch ==
  /\ source.kind = "rlm"
  /\ snapshot.result = "pending"
  /\ \E stat \in Commands(RlmstatLines, Budget) :
       LET n1 == Lines(stat) IN
       \E checkouts \in IF stat.status = "ok" /\ source.export_user = "true"
                        THEN Commands(RlmCheckoutLines, Budget - n1)
                        ELSE {NotRun} :
         LET n2 == Lines(checkouts) IN
         \E status \in IF stat.status = "ok"
                       THEN Commands(RlmStatusLines, Budget - n1 - n2)
                       ELSE {NotRun} :
           /\ reply' = [stat |-> stat, checkouts |-> checkouts, status |-> <<status>>]
           /\ snapshot' = rlm_fetch(source, stat, checkouts, <<status>>)
  /\ UNCHANGED <<source, request>>

(***************************************************************************)
(* Iteration of a HashMap keyed by server: the order is not defined, so    *)
(* any order of the keys can be the one a fetch meets.                     *)
(***************************************************************************)
Orders(S) ==
  {o \in [1..Cardinality(S) -> S] : \A i, j \in DOMAIN o : i # j => o[i] # o[j]}

IndexOf(seq, x) == CHOOSE i \in DOMAIN seq : seq[i] = x

(***************************************************************************)
(* lmx.rs                                                                  *)
(*                                                                         *)
(* A licstatxml document is the attributes of its LICENSE_PATH element and *)
(* its FEATURE elements in document order, each with its nested USER       *)
(* elements; xml = "malformed" is a document quick_xml rejects, xml =      *)
(* "badcount" a well-formed one in which the USED_LICENSES, TOTAL_LICENSES *)
(* or DENIED_LICENSES attribute of one element is not a number.            *)
(***************************************************************************)
LmxEnds == {"2030-12-31", "2031-12-31", "2030-13-31"}

LmxFeatureElements ==
  [NAME : Features, VERSION : {"1.0"}, VENDOR : {"vend"}, END : LmxEnds,
   USED_LICENSES : {1}, TOTAL_LICENSES : {1}, DENIED_LICENSES : {0},
   USER : {<<>>}]
  \cup [NAME : Features, VERSION : {"1.0"}, VENDOR : {"vend"}, END : {"2030-12-31"},
        USED_LICENSES : {1}, TOTAL_LICENSES : {2}, DENIED_LICENSES : {0},
        USER : {<<[NAME |-> "u1", USED_LICENSES |-> 1]>>}]

(* The FEATURE elements drawn for the servers of a three-server list.      *)
LmxHalElements == {e \in LmxFeatureElements : e.NAME = "fB" /\ e.USER # <<>>}

LmxDocuments(E, n) ==
  {[xml |-> "malformed"], [xml |-> "badcount"],
   [xml |-> "ok", SERVER_VERSION |-> "5.5", STATUS |-> "FAILED", FEATURE |-> <<>>]}
  \cup [xml : {"ok"}, SERVER_VERSION : {"5.5"}, STATUS : {"SUCCESS"},
        FEATURE : SeqsUpTo(E, n)]

LmxCommands(E, n) == CommandFailures \cup {CommandOk(d) : d \in LmxDocuments(E, n)}

(* parse_xml, lines 416-561: a FEATURE element's NAME attribute pushes the  *)
(* feature collected before it (when there is one) and the element then    *)
(* becomes the collected feature; nothing is pushed at the end of input.   *)
RECURSIVE lmx_parse_features(_, _, _)
lmx_parse_features(elements, _fname, feature) ==
  IF elements = <<>> THEN <<>>
  ELSE LET v == Head(elements)
           next == [feature |-> v.NAME, version |-> v.VERSION, vendor |-> v.VENDOR,
                    expiration_str |-> v.END, used |-> v.USED_LICENSES,
                    total |-> v.TOTAL_LICENSES, denied |-> v.DENIED_LICENSES,
                    checkouts |-> [i \in DOMAIN v.USER |->
                                     [user |-> v.USER[i].NAME,
                                      used |-> v.USER[i].USED_LICENSES]]]
       IN  (IF _fname # "" THEN <<feature>> ELSE <<>>)
           \o lmx_parse_features(Tail(elements), v.NAME, next)

lmx_parse_xml(raw) ==
  IF raw.xml # "ok" THEN Err
  ELSE Ok([server_version |-> raw.SERVER_VERSION,
           server_status |-> raw.STATUS,
           features |-> lmx_parse_features(raw.FEATURE, "", <<>>)])

RECURSIVE lmx_checkouts(_, _, _)
lmx_checkouts(checkouts, feature, fuv) ==
  IF checkouts = <<>> THEN fuv
  ELSE lmx_checkouts(Tail(checkouts), feature,
         AddTo(fuv, <<feature.feature, Head(checkouts).user, feature.version>>,
               Head(checkouts).used))

(* for feature in parsed.features, lines 253-324 *)
RECURSIVE lmx_features(_, _, _)
lmx_features(features, excludes, acc) ==
  IF features = <<>> THEN acc
  ELSE LET feature == Head(features)
           expiration == parse_from_str(Midnight(feature.expiration_str),
                                        "%Y-%m-%d %H:%M:%S")
           acc1 == [acc EXCEPT
                      !.issued = Set(@, <<feature.feature>>, feature.total),
                      !.used = Set(@, <<feature.feature>>, feature.used),
                      !.fuv = lmx_checkouts(feature.checkouts, feature, @)]
           acc2 == IF expiration = Err THEN acc1
                   ELSE [acc1 EXCEPT
                           !.expiring = Append(@,
                              [feature |-> feature.feature,
                               version |-> feature.version,
                               vendor |-> feature.vendor,
                               license_count |-> feature.total,
                               expiration |-> expiration[1]])]
       IN  lmx_features(Tail(features), excludes,
             IF is_excluded(excludes, feature.feature) THEN acc ELSE acc2)

(* the part of the loop body that exports one server's features, 249-410 *)
lmx_export(lic, server, parsed, o) ==
  LET acc == lmx_features(parsed.features, lic.excluded_features,
               [issued |-> o.issued, used |-> o.used, fuv |-> <<>>,
                expiring |-> <<>>])
  IN  [o EXCEPT
         !.issued = acc.issued,
         !.used = acc.used,
         !.users = IF lic.export_user = "true"
                   THEN [l \in {x \in DOMAIN acc.fuv :
                                  ~is_excluded(lic.excluded_features, x[1])}
                           |-> acc.fuv[l]]
                   ELSE @,
         !.expiring = acc.expiring,
         !.expiration = expiration_loop(acc.expiring, lic.excluded_features, 1),
         !.aggregated = aggregated_gauge(acc.expiring),
         !.exported = Append(@, server)]

lmx_master(lic, server) == IF lic.license[1] = server THEN "true" ELSE "false"

(* for (server, port) in server_port, lines 179-411: order is the order    *)
(* the map yields its keys in, cmds[i] the reply for order[i].             *)
RECURSIVE lmx_servers(_, _, _, _, _)
lmx_servers(lic, order, cmds, features_exported, o) ==
  IF order = <<>> THEN o
  ELSE
    LET server == Head(order)
        cmd == Head(cmds)
        o1 == [o EXCEPT !.queried = Append(@, server),
                        !.transports = Append(@, "usage")]
        parsed == lmx_parse_xml(cmd.lines)
        server_is_ok == parsed[1].server_status = "SUCCESS"
        o2 == [o1 EXCEPT !.status =
                 Set(@, <<server, lmx_master(lic, server), "6200",
                          parsed[1].server_version>>,
                     IF server_is_ok THEN 1 ELSE 0)]
    IN  IF cmd.status # "ok" THEN [o1 EXCEPT !.result = "Err"]
        ELSE IF parsed = Err THEN [o1 EXCEPT !.result = "Err"]
        ELSE IF ~server_is_ok \/ features_exported
             THEN lmx_servers(lic, Tail(order), Tail(cmds), features_exported, o2)
             ELSE lmx_servers(lic, Tail(order), Tail(cmds), TRUE,
                              lmx_export(lic, server, parsed[1], o2))

(* fetch, lines 123-414 *)
lmx_fetch(lic, order, cmds) == lmx_servers(lic, order, cmds, FALSE, Nothing)

lmx_size(cmd) ==
  IF cmd.status = "ok" /\ cmd.lines.xml = "ok" THEN Len(cmd.lines.FEATURE) ELSE 0

(* What each of k servers answers when it is queried, with at most n       *)
(* FEATURE elements in all.                                                *)
RECURSIVE LmxReplies(_, _, _)
LmxReplies(E, k, n) ==
  IF k = 0 THEN {<<>>}
  ELSE UNION {{<<cmd>> \o rest : rest \in LmxReplies(E, k - 1, n - lmx_size(cmd))} :
              cmd \in LmxCommands(E, n)}

LmxFetch ==
  /\ source.kind = "lmx"
  /\ snapshot.result = "pending"
  /\ \E order \in Orders(Range(source.license)) :
       \E cmds \in LmxReplies(IF Len(order) = 1 THEN LmxFeatureElements
                                                ELSE LmxHalElements,
                              Len(order), Budget) :
         /\ reply' = [order |-> order, cmds |-> cmds]
         /\ snapshot' = lmx_fetch(source, order, cmds)
  /\ UNCHANGED <<source, request>>

(***************************************************************************)
(* olicense.rs                                                             *)
(*                                                                         *)
(* A LicenseStatusXML document is its serverVersion text and its license   *)
(* elements in document order, each the texts of its child elements;       *)
(* floatsLockedBy is the list of its "user@host #count" entries.           *)
(***************************************************************************)
OlicenseLicenseElements ==
  [name : Features, module : {"m1"}, licenser : {"vend"}, floatCount : {1},
   floatsLocked : {1}, expiration : LmxEnds, floatsLockedBy : {<<>>},
   versionRange : {"1.0"}]
  \cup [name : Features, module : {"m1"}, licenser : {"vend"}, floatCount : {2},
        floatsLocked : {1}, expiration : {"2030-12-31"},
        floatsLockedBy : {<<[user |-> "u1", host |-> "h1", count |-> 1]>>},
        versionRange : {"1.0"}]

(* The license elements drawn for the servers of a three-server list.      *)
OlicenseHalElements ==
  {e \in OlicenseLicenseElements : e.name = "fB" /\ e.floatsLockedBy # <<>>}

OlicenseDocuments(E, n) ==
  {[xml |-> "malformed"]}
  \cup [xml : {"ok"}, serverVersion : {"4.8"}, license : SeqsUpTo(E, n)]

(* http::get: the body of the reply, or a failure                           *)
OlicenseReplyBodies(E, n) ==
  {[status |-> "http"]} \cup {CommandOk(d) : d \in OlicenseDocuments(E, n)}

(* parse_checkouts, lines 495-518 *)
olicense_parse_checkouts(raw) ==
  [i \in DOMAIN raw |-> [user |-> raw[i].user, count |-> raw[i].count]]

(* the license elements of parse_xml, lines 385-490: the date of an        *)
(* expiration element that does not parse ends the parse with an error.    *)
RECURSIVE olicense_parse_features(_)
olicense_parse_features(elements) ==
  IF elements = <<>> THEN Ok(<<>>)
  ELSE LET v == Head(elements)
           expiration == parse_from_str(Midnight(v.expiration), "%Y-%m-%d %H:%M:%S")
           rest == olicense_parse_features(Tail(elements))
       IN  IF expiration = Err \/ rest = Err THEN Err
           ELSE Ok(<<[name |-> v.name, module |-> v.module, vendor |-> v.licenser,
                      total |-> v.floatCount, used |-> v.floatsLocked,
                      expiration_date |-> v.expiration,
                      expiration |-> expiration[1],
                      checkouts |-> olicense_parse_checkouts(v.floatsLockedBy),
                      version_range |-> v.versionRange]>> \o rest[1])

(* parse_xml, lines 375-493 *)
olicense_parse_xml(raw) ==
  IF raw.xml # "ok" THEN Err
  ELSE LET features == olicense_parse_features(raw.license) IN
       IF features = Err THEN Err
       ELSE Ok([server_version |-> raw.serverVersion, features |-> features[1]])

RECURSIVE olicense_checkouts(_, _, _)
olicense_checkouts(checkouts, f, fuv) ==
  IF checkouts = <<>> THEN fuv
  ELSE olicense_checkouts(Tail(checkouts), f,
         AddTo(fuv, <<f.name, Head(checkouts).user, f.version_range>>,
               Head(checkouts).count))

(* for f in parsed.features, lines 230-284 *)
RECURSIVE olicense_features(_, _, _)
olicense_features(features, excludes, acc) ==
  IF features = <<>> THEN acc
  ELSE LET f == Head(features) IN
       olicense_features(Tail(features), excludes,
         IF is_excluded(excludes, f.name) THEN acc
         ELSE [acc EXCEPT
                 !.issued = Set(@, <<f.vendor, f.name, f.module>>, f.total),
                 !.used = Set(@, <<f.vendor, f.name, f.module>>, f.used),
                 !.fuv = olicense_checkouts(f.checkouts, f, @),
                 !.expiring = Append(@, [feature |-> f.name,
                                         version |-> f.version_range,
                                         vendor |-> f.vendor,
                                         module |-> f.module,
                                         license_count |-> f.total,
                                         expiration |-> f.expiration])])

(* the part of the loop body that exports one server's features, 226-369 *)
olicense_export(lic, server, parsed, o) ==
  LET acc == olicense_features(parsed.features, lic.excluded_features,
               [issued |-> o.issued, used |-> o.used, fuv |-> <<>>,
                expiring |-> <<>>])
  IN  [o EXCEPT
         !.issued = acc.issued,
         !.used = acc.used,
         !.users = IF lic.export_user = "true"
                   THEN [l \in {x \in DOMAIN acc.fuv :
                                  ~is_excluded(lic.excluded_features, x[1])}
                           |-> acc.fuv[l]]
                   ELSE @,
         !.expiring = acc.expiring,
         !.expiration = expiration_loop(acc.expiring, lic.excluded_features, 1),
         !.aggregated = aggregated_gauge(acc.expiring),
         !.exported = Append(@, server)]

(* for (server, port) in server_port, lines 166-370 *)
RECURSIVE olicense_servers(_, _, _, _, _)
olicense_servers(lic, order, replies, features_exported, o) ==
  IF order = <<>> THEN o
  ELSE
    LET server == Head(order)
        o1 == [o EXCEPT !.queried = Append(@, server),
                        !.transports = Append(@, "usage")]
        parsed == olicense_parse_xml(Head(replies).lines)
        down == [o1 EXCEPT !.status = Set(@, <<server, "8080", "">>, 0)]
        up == [o1 EXCEPT !.status =
                 Set(@, <<server, "8080", parsed[1].server_version>>, 1)]
    IN  IF Head(replies).status # "ok"
        THEN olicense_servers(lic, Tail(order), Tail(replies), features_exported, down)
        ELSE IF parsed = Err
        THEN olicense_servers(lic, Tail(order), Tail(replies), features_exported, down)
        ELSE IF features_exported
        THEN olicense_servers(lic, Tail(order), Tail(replies), features_exported, up)
        ELSE olicense_servers(lic, Tail(order), Tail(replies), TRUE,
                              olicense_export(lic, server, parsed[1], up))

(* fetch, lines 133-373 *)
olicense_fetch(lic, order, replies) ==
  olicense_servers(lic, order, replies, FALSE, Nothing)

olicense_size(r) ==
  IF r.status = "ok" /\ r.lines.xml = "ok" THEN Len(r.lines.license) ELSE 0

(* The replies of k servers, with at most n license elements in all.       *)
RECURSIVE OlicenseReplies(_, _, _)
OlicenseReplies(E, k, n) ==
  IF k = 0 THEN {<<>>}
  ELSE UNION {{<<r>> \o rest : rest \in OlicenseReplies(E, k - 1, n - olicense_size(r))} :
              r \in OlicenseReplyBodies(E, n)}

OlicenseFetch ==
  /\ source.kind = "olicense"
  /\ snapshot.result = "pending"
  /\ \E order \in Orders(Range(source.license)) :
       \E replies \in OlicenseReplies(IF Len(order) = 1 THEN OlicenseLicenseElements
                                                        ELSE OlicenseHalElements,
                                      Len(order), Budget) :
         /\ reply' = [order |-> order, replies |-> replies]
         /\ snapshot' = olicense_fetch(source, order, replies)
  /\ UNCHANGED <<source, request>>

(***************************************************************************)
(* dsls.rs                                                                 *)
(*                                                                         *)
(* The output of "connect ...;getLicenseUsage -csv;quit;" is the lines      *)
(* before the echoed command (pre), the echoed command and the CSV header  *)
(* (marker), the CSV lines and the echoed quit.                            *)
(***************************************************************************)
DslsVersion == [k |-> "version", version |-> "6.4"]

DslsReady(status) == [k |-> "ready", status |-> status]

DslsFramings ==
  [pre : {<<DslsVersion, DslsReady("yes")>>, <<DslsVersion, DslsReady("no")>>,
          <<DslsReady("yes")>>},
   marker : {TRUE}, quit : {TRUE}]
  \cup [pre : {<<DslsVersion, DslsReady("yes")>>}, marker : {FALSE}, quit : {TRUE}]

DslsHalFramings ==
  [pre : {<<DslsVersion, DslsReady("yes")>>}, marker : {TRUE}, quit : BOOLEAN]
  \cup [pre : {<<DslsVersion, DslsReady("no")>>}, marker : {TRUE}, quit : {TRUE}]

(* user is the 17th field when the line has one                            *)
DslsUsageLines ==
  [k : {"usage"}, feature : Features, count : {2}, inuse : {1}, user : {<<"u1">>}]
  \cup {[k |-> "usage", feature |-> "fA", count |-> 2, inuse |-> 1, user |-> <<>>],
        [k |-> "other"]}

DslsHalUsageLines ==
  {l \in DslsUsageLines : l.k = "usage" /\ l.feature = "fB" /\ l.user # <<>>}

DslsOutput(framing, csv) ==
  framing.pre
  \o (IF framing.marker THEN <<[k |-> "marker"], [k |-> "header"]>> ELSE <<>>)
  \o csv
  \o (IF framing.quit THEN <<[k |-> "quit"]>> ELSE <<>>)

DslsCommands(F, L, n) ==
  CommandFailures
  \cup {[status |-> "ok", lines |-> DslsOutput(f, csv), records |-> Len(csv)] :
          f \in F, csv \in SeqsUpTo(L, n)}

DslsDates == {"2030-12-31 00:00:00", "2031-12-31 00:00:00", "2030-12-31"}

(* the lines after the header of getLicenseUsage -short -csv               *)
DslsExpirationLines ==
  {[k |-> "row", feature |-> r[1], expiration_date |-> r[2], count |-> r[3]] :
     r \in {<<"fA", "2030-12-31 00:00:00", 1>>, <<"fB", "2030-12-31 00:00:00", 1>>,
            <<"fB", "2031-12-31 00:00:00", 2>>, <<"fB", "2030-12-31", 1>>}}

DslsHalExpirationLines ==
  {l \in DslsExpirationLines :
     l.feature = "fB" /\ l.expiration_date = "2030-12-31 00:00:00"}

DslsExpirationCommands(L, n) ==
  {[status |-> "nonzero"]}
  \cup {[status |-> "ok", lines |-> <<[k |-> "header"]>> \o rows,
         records |-> Len(rows)] : rows \in SeqsUpTo(L, n)}

(* extract_data, lines 285-314 *)
extract_data(line) ==
  IF line.k = "usage"
  THEN Ok([feature |-> line.feature, count |-> line.count, inuse |-> line.inuse,
           user |-> line.user])
  ELSE Err

(* for line in stdout.lines(), lines 134-189.  acc holds csv_mode,         *)
(* features_exported, the server_* maps and license_data.                  *)
RECURSIVE dsls_lines(_, _, _)
dsls_lines(lines, server, acc) ==
  IF lines = <<>> THEN acc
  ELSE
    LET line == Head(lines) IN
    CASE line.k = "version" ->
           dsls_lines(Tail(lines), server,
             [acc EXCEPT !.server_version = Set(@, server, line.version)])
      [] line.k = "ready" ->
           LET acc1 == [acc EXCEPT !.server_status =
                          Set(@, server, IF line.status = "yes" THEN 1 ELSE 0)]
           IN  IF acc.features_exported THEN acc1
               ELSE dsls_lines(Tail(lines), server, acc1)
      [] line.k = "marker" ->
           dsls_lines(Tail(lines), server, [acc EXCEPT !.csv_mode = TRUE])
      [] line.k = "quit" ->
           dsls_lines(Tail(lines), server,
             [acc EXCEPT !.features_exported = TRUE, !.csv_mode = FALSE])
      [] OTHER ->
           IF ~acc.csv_mode \/ line.k = "header"
           THEN dsls_lines(Tail(lines), server, acc)
           ELSE LET data == extract_data(line) IN
                IF data = Err THEN [acc EXCEPT !.failed = TRUE]
                ELSE dsls_lines(Tail(lines), server,
                       [acc EXCEPT
                          !.license_data = Append(@, data[1]),
                          !.exported = IF server \in Range(@) THEN @
                                       ELSE Append(@, server)])

(* for (server, port) in &server_port, lines 98-190 *)
RECURSIVE dsls_servers(_, _, _)
dsls_servers(order, cmds, acc) ==
  IF order = <<>> THEN acc
  ELSE LET acc1 == [acc EXCEPT !.queried = Append(@, Head(order))] IN
       IF Head(cmds).status # "ok" THEN [acc1 EXCEPT !.failed = TRUE]
       ELSE LET acc2 == dsls_lines(Head(cmds).lines, Head(order), acc1) IN
            IF acc2.failed THEN acc2
            ELSE dsls_servers(Tail(order), Tail(cmds), acc2)

(* the loop over the lines of the short CSV output, lines 363-413 *)
RECURSIVE dsls_expiring(_, _)
dsls_expiring(lines, csv_mode) ==
  IF lines = <<>> THEN Ok(<<>>)
  ELSE
    LET line == Head(lines) IN
    IF line.k = "header" THEN dsls_expiring(Tail(lines), TRUE)
    ELSE IF ~csv_mode \/ line.k # "row" THEN dsls_expiring(Tail(lines), csv_mode)
    ELSE LET expiration == parse_from_str(line.expiration_date, "%Y-%m-%d %H:%M:%S")
             rest == dsls_expiring(Tail(lines), csv_mode)
         IN  IF expiration = Err \/ rest = Err THEN Err
             ELSE Ok(<<[feature |-> line.feature, license_count |-> line.count,
                        expiration |-> expiration[1]]>> \o rest[1])

(* fetch_expiration, lines 316-471: Err, or Ok of what the fetch has       *)
(* written once the expiration gauges are set.                             *)
dsls_fetch_expiration(lic, cmd, o) ==
  IF cmd.status # "ok" THEN Err
  ELSE LET expiring == dsls_expiring(cmd.lines, FALSE) IN
       IF expiring = Err THEN Err
       ELSE Ok([o EXCEPT
                  !.expiring = expiring[1],
                  !.expiration = expiration_loop(expiring[1], lic.excluded_features, 1),
                  !.aggregated = aggregated_gauge(expiring[1])])

(* the second loop over &server_port, lines 192-205 *)
RECURSIVE dsls_expirations(_, _, _, _, _)
dsls_expirations(lic, order, exps, server_status, o) ==
  IF order = <<>> THEN o
  ELSE IF Head(order) \in DOMAIN server_status /\ server_status[Head(order)] = 1
       THEN LET done == dsls_fetch_expiration(lic, Head(exps), o) IN
            IF done # Err THEN done[1]
            ELSE dsls_expirations(lic, Tail(order), Tail(exps), server_status, o)
       ELSE dsls_expirations(lic, Tail(order), Tail(exps), server_status, o)

(* for l in license_data, lines 207-225 *)
RECURSIVE dsls_license_data(_, _, _)
dsls_license_data(license_data, excludes, acc) ==
  IF license_data = <<>> THEN acc
  ELSE LET l == Head(license_data) IN
       dsls_license_data(Tail(license_data), excludes,
         IF is_excluded(excludes, l.feature) THEN acc
         ELSE [acc EXCEPT
                 !.f_used = OrInsert(@, <<l.feature>>, l.inuse),
                 !.f_total = OrInsert(@, <<l.feature>>, l.count),
                 !.fuv = IF l.user # <<>>
                         THEN AddTo(@, <<l.feature, l.user[1]>>, l.count) ELSE @])

(* lines 248-260 *)
dsls_server_status(acc) ==
  [l \in {<<k, "4085", acc.server_version[k]>> :
            k \in (DOMAIN acc.server_status) \cap (DOMAIN acc.server_version)}
     |-> acc.server_status[l[1]]]

(* The commands fetch runs: getLicenseUsage -csv for each server asked in  *)
(* the first loop, then getLicenseUsage -short -csv for each server the    *)
(* second loop calls fetch_expiration for.                                 *)
RECURSIVE dsls_transports(_, _)
dsls_transports(queried, exps) ==
  IF queried # <<>> THEN <<"usage">> \o dsls_transports(Tail(queried), exps)
  ELSE IF exps = <<>> THEN <<>>
  ELSE (IF Head(exps) = NotRun THEN <<>> ELSE <<"expiration">>)
       \o dsls_transports(queried, Tail(exps))

(* fetch, lines 69-283 *)
dsls_fetch(lic, order, cmds, exps) ==
  LET acc == dsls_servers(order, cmds,
               [csv_mode |-> FALSE, features_exported |-> FALSE,
                server_version |-> <<>>, server_status |-> <<>>,
                license_data |-> <<>>, exported |-> <<>>, queried |-> <<>>,
                failed |-> FALSE])
      o1 == [Nothing EXCEPT !.queried = acc.queried, !.exported = acc.exported]
      o2 == dsls_expirations(lic, order, exps, acc.server_status, o1)
      data == dsls_license_data(acc.license_data, lic.excluded_features,
                [f_used |-> <<>>, f_total |-> <<>>, fuv |-> <<>>])
  IN  IF acc.failed
      THEN [Nothing EXCEPT !.result = "Err", !.queried = acc.queried,
                           !.transports = dsls_transports(acc.queried, <<>>)]
      ELSE [o2 EXCEPT
              !.transports = dsls_transports(acc.queried, exps),
              !.used = data.f_used,
              !.issued = data.f_total,
              !.status = dsls_server_status(acc),
              !.users = IF lic.export_user = "true"
                        THEN [l \in {x \in DOMAIN data.fuv :
                                       ~is_excluded(lic.excluded_features, x[1])}
                                |-> data.fuv[l]]
                        ELSE NoGauge]

dsls_size(cmd) == IF cmd.status = "ok" THEN cmd.records ELSE 0

(* What each of k servers answers when it is queried, with at most n CSV   *)
(* lines in all.                                                           *)
RECURSIVE DslsReplies(_, _, _, _)
DslsReplies(F, L, k, n) ==
  IF k = 0 THEN {<<>>}
  ELSE UNION {{<<cmd>> \o rest :
                 rest \in DslsReplies(F, L, k - 1, n - dsls_size(cmd))} :
              cmd \in DslsCommands(F, L, n)}

(* The replies to fetch_expiration for the servers of order: one for each  *)
(* server that reported Ready: yes, up to the first that succeeds.         *)
RECURSIVE DslsExpirationReplies(_, _, _, _)
DslsExpirationReplies(L, order, ready, n) ==
  IF order = <<>> THEN {<<>>}
  ELSE IF Head(order) \in ready
       THEN UNION {IF cmd.status = "ok" /\ dsls_expiring(cmd.lines, FALSE) # Err
                   THEN {<<cmd>> \o [i \in 1..(Len(order) - 1) |-> NotRun]}
                   ELSE {<<cmd>> \o rest :
                           rest \in DslsExpirationReplies(L, Tail(order), ready,
                                                          n - dsls_size(cmd))} :
                   cmd \in DslsExpirationCommands(L, n)}
       ELSE {<<NotRun>> \o rest :
               rest \in DslsExpirationReplies(L, Tail(order), ready, n)}

RECURSIVE dsls_total(_)
dsls_total(cmds) ==
  IF cmds = <<>> THEN 0 ELSE dsls_size(Head(cmds)) + dsls_total(Tail(cmds))

(* the servers a run of the first loop over cmds leaves with status 1      *)
dsls_ready(order, cmds) ==
  LET acc == dsls_servers(order, cmds,
               [csv_mode |-> FALSE, features_exported |-> FALSE,
                server_version |-> <<>>, server_status |-> <<>>,
                license_data |-> <<>>, exported |-> <<>>, queried |-> <<>>,
                failed |-> FALSE])
  IN  IF acc.failed THEN {}
      ELSE {k \in DOMAIN acc.server_status : acc.server_status[k] = 1}

DslsFetch ==
  /\ source.kind = "dsls"
  /\ snapshot.result = "pending"
  /\ \E order \in Orders(Range(source.license)) :
       LET single == Len(order) = 1 IN
       \E cmds \in DslsReplies(IF single THEN DslsFramings ELSE DslsHalFramings,
                               IF single THEN DslsUsageLines ELSE DslsHalUsageLines,
                               Len(order), Budget) :
         \E exps \in DslsExpirationReplies(
                       IF single THEN DslsExpirationLines ELSE DslsHalExpirationLines,
                       order, dsls_ready(order, cmds),
                       Budget - dsls_total(cmds)) :
           /\ reply' = [order |-> order, cmds |-> cmds, exps |-> exps]
           /\ snapshot' = dsls_fetch(source, order, cmds, exps)
  /\ UNCHANGED <<source, request>>

(***************************************************************************)
(* hasp.rs                                                                 *)
(*                                                                         *)
(* The body of tab_feat.html / tab_sessions.html, once massaged into JSON, *)
(* is a list of objects; an optional field is <<>> when the object lacks   *)
(* it and <<value>> otherwise (logc and logl hold digits, given here as    *)
(* the number they parse to).                                              *)
(***************************************************************************)
HaspIds == {<<"fA", "fB">>, <<"7", "fA">>, <<"8", "">>}

HaspLics == {<<"Perpetual", 1>>, <<"Tue Dec 31, 2030 00:00", 2>>,
             <<"Foo Dec 31, 2030 00:00", 1>>}

HaspFeatureObjects ==
  {[fid |-> <<p[1][1]>>, fn |-> <<p[1][2]>>, lic |-> <<p[2][1]>>, logc |-> <<1>>,
    logl |-> <<p[2][2]>>] :
     p \in {q \in HaspIds \X HaspLics :
              q[1][1] = "7" \/ q[2][1] = "Tue Dec 31, 2030 00:00"}}
  \cup {[fid |-> <<"8">>, fn |-> <<>>, lic |-> <<"">>, logc |-> <<1>>, logl |-> <<1>>],
        [fid |-> <<"8">>, fn |-> <<>>, lic |-> <<>>, logc |-> <<1>>, logl |-> <<1>>],
        [fid |-> <<"8">>, fn |-> <<>>, lic |-> <<"soon">>, logc |-> <<1>>,
         logl |-> <<1>>],
        [fid |-> <<"fA">>, fn |-> <<"fB">>, lic |-> <<>>, logc |-> <<1>>,
         logl |-> <<1>>],
        [fid |-> <<>>, fn |-> <<"fB">>, lic |-> <<>>, logc |-> <<>>, logl |-> <<>>]}

HaspSessionObjects ==
  {[fid |-> <<id[1]>>, fn |-> <<id[2]>>, usr |-> <<"u1">>] : id \in HaspIds}
  \cup {[fid |-> <<"7">>, fn |-> <<"fA">>, usr |-> <<>>]}

(* http::get followed by serde_json::from_str(&massage(reply))              *)
HaspReplies(O, n) ==
  {[status |-> "http"], [status |-> "json"]}
  \cup {CommandOk(l) : l \in SeqsUpTo(O, n)}

(* RE_HASP_EXPIRATION, lines 82-83: the captured date, if the field has one *)
hasp_captures(_licexp) ==
  IF _licexp \in {"Tue Dec 31, 2030 00:00", "Foo Dec 31, 2030 00:00"}
  THEN Ok(_licexp) ELSE Err

(* for feat in features, lines 152-296.  acc holds expiring and the gauges *)
(* written; failed is set where the code bails.                            *)
RECURSIVE hasp_features(_, _, _)
hasp_features(features, excludes, acc) ==
  IF features = <<>> THEN acc
  ELSE
    LET feat == Head(features)
        fid == feat.fid[1]
        fname == IF feat.fn = <<>> \/ feat.fn[1] = "" THEN fid ELSE feat.fn[1]
        logc == feat.logc[1]
        logl == feat.logl[1]
        acc1 == [acc EXCEPT !.issued = Set(@, <<fname>>, logl),
                            !.used = Set(@, <<fname>>, logc)]
        _licexp == feat.lic[1]
        capt == hasp_captures(_licexp)
        expiration == IF _licexp = "Perpetual" THEN Ok(INFINITY)
                      ELSE parse_from_str(capt[1], "%a %b %d, %Y %H:%M")
    IN  IF feat.fid = <<>> \/ is_excluded(excludes, fid)
        THEN hasp_features(Tail(features), excludes, acc)
        ELSE IF feat.logc = <<>> \/ feat.logl = <<>>
        THEN [acc EXCEPT !.failed = TRUE]
        ELSE IF feat.lic = <<>> THEN [acc1 EXCEPT !.failed = TRUE]
        ELSE IF _licexp = "" THEN hasp_features(Tail(features), excludes, acc1)
        ELSE IF _licexp # "Perpetual" /\ capt = Err THEN [acc1 EXCEPT !.failed = TRUE]
        ELSE IF expiration = Err THEN hasp_features(Tail(features), excludes, acc1)
        ELSE hasp_features(Tail(features), excludes,
               [acc1 EXCEPT !.expiring =
                  Append(@, [feature |-> fname, license_count |-> logl,
                             expiration |-> expiration[1]])])

(* for sess in sessions, lines 430-475 *)
RECURSIVE hasp_sessions(_, _, _)
hasp_sessions(sessions, excludes, acc) ==
  IF sessions = <<>> THEN acc
  ELSE
    LET sess == Head(sessions)
        fid == sess.fid[1]
        fname == IF sess.fn = <<>> \/ sess.fn[1] = "" THEN fid ELSE sess.fn[1]
        acc1 == [acc EXCEPT !.fidmap = OrInsert(@, fid, fname)]
    IN  hasp_sessions(Tail(sessions), excludes,
          IF sess.fid = <<>> \/ is_excluded(excludes, fid) THEN acc
          ELSE IF sess.usr = <<>> THEN acc1
          ELSE [acc1 EXCEPT !.fu = AddTo(@, <<fid, sess.usr[1]>>, 1)])

(* fetch_checkouts, lines 369-499 *)
hasp_fetch_checkouts(lic, r, o) ==
  IF r.status # "ok"
  THEN [o EXCEPT !.status = Set(@, <<lic.license[1], "1947", "key">>, 0)]
  ELSE LET acc == hasp_sessions(r.lines, lic.excluded_features,
                                [fidmap |-> <<>>, fu |-> <<>>])
           kept == {x \in DOMAIN acc.fu : ~is_excluded(lic.excluded_features, x[1])}
       IN  [o EXCEPT !.users =
              [l \in {<<acc.fidmap[x[1]], x[2]>> : x \in kept}
                 |-> acc.fu[CHOOSE x \in kept : <<acc.fidmap[x[1]], x[2]>> = l]]]

(* fetch, lines 80-367 *)
hasp_fetch(lic, feat, sess) ==
  LET labels == <<lic.license[1], "1947", "key">> IN
  IF feat.status # "ok"
  THEN [Nothing EXCEPT !.result = "Err", !.status = Set(NoGauge, labels, 0),
                       !.queried = lic.license, !.transports = <<"usage">>]
  ELSE
    LET acc == hasp_features(feat.lines, lic.excluded_features,
                 [issued |-> NoGauge, used |-> NoGauge, expiring |-> <<>>,
                  failed |-> FALSE])
        o1 == [Nothing EXCEPT !.status = Set(NoGauge, labels, 1),
                              !.queried = lic.license,
                              !.transports = <<"usage">>,
                              !.issued = acc.issued, !.used = acc.used]
        o2 == [o1 EXCEPT
                 !.expiring = acc.expiring,
                 !.expiration = expiration_loop(acc.expiring, lic.excluded_features, 1),
                 !.aggregated = aggregated_gauge(acc.expiring)]
    IN  IF acc.failed THEN [o1 EXCEPT !.result = "Err"]
        ELSE IF lic.export_user = "true"
        THEN [hasp_fetch_checkouts(lic, sess, o2)
                EXCEPT !.transports = <<"usage", "checkouts">>]
        ELSE o2

(* whether the loop over features runs to its end                          *)
hasp_completes(lic, feat) ==
  /\ feat.status = "ok"
  /\ ~hasp_features(feat.lines, lic.excluded_features,
                    [issued |-> NoGauge, used |-> NoGauge, expiring |-> <<>>,
                     failed |-> FALSE]).failed

HaspFetch ==
  /\ source.kind = "hasp"
  /\ snapshot.result = "pending"
  /\ \E feat \in HaspReplies(HaspFeatureObjects, Budget) :
       \E sess \in IF source.export_user = "true" /\ hasp_completes(source, feat)
                   THEN HaspReplies(HaspSessionObjects, Budget - Lines(feat))
                   ELSE {NotRun} :
         /\ reply' = [feat |-> feat, sess |-> sess]
         /\ snapshot' = hasp_fetch(source, feat, sess)
  /\ UNCHANGED <<source, request>>

(***************************************************************************)
(* licman20.rs                                                             *)
(***************************************************************************)
Licman20Keys == {"10", "20"}

Licman20Lines ==
  [k : {"key"}, product_key : Licman20Keys]
  \cup [k : {"comment"}, feature : Features]
  \cup [k : {"total"}, total : {2}]
  \cup [k : {"used"}, used : {1}]
  \cup [k : {"end"}, end_date : {"31-dec-2030", "31-foo-2030"}]
  \cup {[k |-> "other"]}

Licman20CheckoutLines ==
  [k : {"checkout"}, user : {"u1"}, product_key : Licman20Keys]
  \cup {[k |-> "other"]}

(* lines 149-178 and 257-286: push the collected entry *)
licman20_flush(acc) ==
  IF acc.product_key = "" THEN acc
  ELSE [acc EXCEPT
          !.licenses = Append(@, [product_key |-> acc.product_key,
                                  feature |-> acc.feature,
                                  total |-> acc.total, used |-> acc.used]),
          !.expiring = Append(@, [product_key |-> acc.product_key,
                                  feature |-> acc.feature,
                                  expiration |-> acc.expiration,
                                  license_count |-> acc.total]),
          !.product_key_map = Set(@, acc.product_key, acc.feature)]

(* a "Product key" line that starts the next entry without a push of the   *)
(* collected one                                                           *)
licman20_line_unflushed(line, acc) ==
  CASE line.k = "key" -> [acc EXCEPT !.product_key = line.product_key]
    [] line.k = "comment" -> [acc EXCEPT !.feature = line.feature]
    [] line.k = "total" -> [acc EXCEPT !.total = line.total]
    [] line.k = "used" -> [acc EXCEPT !.used = line.used]
    [] line.k = "end" ->
         LET expiration == parse_from_str(Midnight(line.end_date),
                                          "%d-%b-%Y %H:%M:%S")
         IN  IF expiration = Err THEN acc
             ELSE [acc EXCEPT !.expiration = expiration[1]]
    [] OTHER -> acc

(* One line of the license listing, lines 130-254 *)
licman20_line(line, acc) ==
  CASE line.k = "key" ->
         [licman20_flush(acc) EXCEPT !.product_key = line.product_key]
    [] line.k = "comment" -> [acc EXCEPT !.feature = line.feature]
    [] line.k = "total" -> [acc EXCEPT !.total = line.total]
    [] line.k = "used" -> [acc EXCEPT !.used = line.used]
    [] line.k = "end" ->
         LET expiration == parse_from_str(Midnight(line.end_date),
                                          "%d-%b-%Y %H:%M:%S")
         IN  IF expiration = Err THEN acc
             ELSE [acc EXCEPT !.expiration = expiration[1]]
    [] OTHER -> acc

RECURSIVE licman20_lines(_, _)
licman20_lines(lines, acc) ==
  IF lines = <<>> THEN acc
  ELSE licman20_lines(Tail(lines), licman20_line(Head(lines), acc))

(* for l in licenses, lines 288-308: both values are set on                *)
(* LICMAN20_FEATURES_TOTAL                                                 *)
RECURSIVE licman20_licenses(_, _, _)
licman20_licenses(licenses, excludes, total) ==
  IF licenses = <<>> THEN total
  ELSE LET l == Head(licenses) IN
       licman20_licenses(Tail(licenses), excludes,
         IF is_excluded(excludes, l.feature) THEN total
         ELSE Set(Set(total, <<l.feature, l.product_key>>, l.total),
                  <<l.feature, l.product_key>>, l.used))

(* the loop over the lines of the checkout listing, lines 433-461 *)
RECURSIVE licman20_fu(_)
licman20_fu(lines) ==
  IF lines = <<>> THEN <<>>
  ELSE LET line == lines[Len(lines)]
           rest == licman20_fu(SubSeq(lines, 1, Len(lines) - 1))
       IN  IF line.k = "checkout"
           THEN AddTo(rest, <<line.product_key, line.user>>, 1)
           ELSE rest

(* fetch_checkouts, lines 381-485: the per-user gauge it sets *)
licman20_fetch_checkouts(lic, cmd, pmap) ==
  IF cmd.status # "ok" THEN NoGauge
  ELSE LET fu == licman20_fu(cmd.lines)
           kept == {x \in DOMAIN fu : ~is_excluded(lic.excluded_features, x[1])}
       IN  [l \in {<<IF x[1] \in DOMAIN pmap THEN pmap[x[1]] ELSE x[1], x[1], x[2]>> :
                     x \in kept}
              |-> fu[<<l[2], l[3]>>]]

(* fetch, lines 68-379 *)
licman20_fetch(lic, cmd, checkouts) ==
  IF cmd.status # "ok"
  THEN [Nothing EXCEPT !.result = "Err", !.transports = <<"usage">>]
  ELSE
    LET acc == licman20_flush(licman20_lines(cmd.lines,
                 [feature |-> "", product_key |-> "", total |-> 0, used |-> 0,
                  expiration |-> 0, licenses |-> <<>>, expiring |-> <<>>,
                  product_key_map |-> <<>>]))
    IN  [Nothing EXCEPT
           !.issued = licman20_licenses(acc.licenses, lic.excluded_features, NoGauge),
           !.expiring = acc.expiring,
           !.expiration = expiration_loop(acc.expiring, lic.excluded_features, 1),
           !.aggregated = aggregated_gauge(acc.expiring),
           !.transports = IF lic.export_user = "true" THEN <<"usage", "checkouts">>
                          ELSE <<"usage">>,
           !.users = IF lic.export_user = "true"
                     THEN licman20_fetch_checkouts(lic, checkouts, acc.product_key_map)
                     ELSE NoGauge]

Licman20Fetch ==
  /\ source.kind = "licman20"
  /\ snapshot.result = "pending"
  /\ \E cmd \in Commands(Licman20Lines, Budget) :
       \E checkouts \in IF cmd.status = "ok" /\ source.export_user = "true"
                        THEN Commands(Licman20CheckoutLines, Budget - Lines(cmd))
                        ELSE {NotRun} :
         /\ reply' = [cmd |-> cmd, checkouts |-> checkouts]
         /\ snapshot' = licman20_fetch(source, cmd, checkouts)
  /\ UNCHANGED <<source, request>>

Next ==
  \/ FlexlmFetch
  \/ RlmFetch
  \/ LmxFetch
  \/ OlicenseFetch
  \/ DslsFetch
  \/ HaspFetch
  \/ Licman20Fetch

Spec == Init /\ [][Next]_vars

(***************************************************************************)
(* exporter.rs: metrics() calls fetch for every configured source, kind by *)
(* kind, logs an Err and goes on, then encodes what REGISTRY gathers.      *)
(***************************************************************************)
KindOrder == <<"flexlm", "rlm", "lmx", "dsls", "licman20", "hasp", "olicense">>

Position(kind) == CHOOSE i \in DOMAIN KindOrder : KindOrder[i] = kind

(* The configurations drawn: at most one source of a kind, each with one   *)
(* server at most, nothing excluded and no per-user export.                *)
ScrapeSources ==
  {c \in Sources : /\ c.excluded_features = <<>>
                   /\ c.export_user = "None"
                   /\ Len(c.license) <= 1}

Configurations ==
  {c \in SeqsUpTo(ScrapeSources, MaxSources) :
     \A i, j \in DOMAIN c : i < j => Position(c[i].kind) < Position(c[j].kind)}

NoSource ==
  [kind |-> "none", excluded_features |-> <<>>, export_user |-> "None",
   license |-> <<>>]

Idle == [Nothing EXCEPT !.result = "idle"]

(* The series of one source in REGISTRY, each gauge vector a function from *)
(* the labels to the value set last.  The vectors are registered once and  *)
(* no adapter resets one or removes a label set.                           *)
NoSeries ==
  [issued |-> NoGauge, used |-> NoGauge, users |-> NoGauge, status |-> NoGauge,
   expiration |-> NoGauge, aggregated |-> NoGauge]

(* with_label_values(..).set(v) for every series a fetch set               *)
Put(g, new) ==
  [l \in (DOMAIN g) \cup (DOMAIN new) |-> IF l \in DOMAIN new THEN new[l] ELSE g[l]]

RECURSIVE SetExpiration(_, _)
SetExpiration(g, entries) ==
  IF entries = <<>> THEN g
  ELSE LET e == Head(entries) IN
       SetExpiration(Set(g, <<e.index, e.licenses, e.name>>, e.value), Tail(entries))

RECURSIVE SetAggregated(_, _)
SetAggregated(g, entries) ==
  IF entries = <<>> THEN g
  ELSE LET e == Head(entries) IN
       SetAggregated(Set(g, <<e.features, e.index, e.licenses>>, e.value),
                     Tail(entries))

(* the series of a source after a fetch that set what snap holds           *)
Written(series, snap) ==
  [issued |-> Put(series.issued, snap.issued),
   used |-> Put(series.used, snap.used),
   users |-> Put(series.users, snap.users),
   status |-> Put(series.status, snap.status),
   expiration |-> SetExpiration(series.expiration, snap.expiration),
   aggregated |-> SetAggregated(series.aggregated, snap.aggregated)]

ScrapeInit ==
  /\ cfg \in Configurations
  /\ pc = 0
  /\ registry = [i \in DOMAIN cfg |-> NoSeries]
  /\ trace = <<>>
  /\ text = NoText
  /\ scrapes = 0
  /\ req = NoRequest
  /\ response = NoResponse
  /\ tasks = <<>>
  /\ writer = <<>>
  /\ input = <<>>
  /\ output = NotCalled
  /\ source = NoSource
  /\ reply = <<>>
  /\ snapshot = Idle

(* http.rs, server: the request received is answered without a call of    *)
(* metrics() unless it is a GET of the metrics path.                       *)
server_payload(method, url) ==
  IF method = "GET"
  THEN CASE url = "/" -> [status |-> 302, payload |-> ROOT_HTML]
         [] OTHER -> [status |-> 404, payload |-> REPLY_NOT_FOUND]
  ELSE [status |-> 405, payload |-> REPLY_METHOD_NOT_ALLOWED]

server_respond ==
  /\ pc = 0
  /\ \E method \in Methods, url \in Urls :
       /\ ~(method = "GET" /\ url = DEFAULT_METRICS_PATH)
       /\ req' = [method |-> method, url |-> url]
       /\ response' = server_payload(method, url)
  /\ UNCHANGED <<source, reply, snapshot, cfg, pc, registry, trace, text, scrapes>>
  /\ UNCHANGED <<tasks, writer, parsing>>

(* a GET of the metrics path: exporter::metrics(&config) is called         *)
metrics_enter ==
  /\ pc = 0
  /\ scrapes < MaxScrapes
  /\ pc' = 1
  /\ trace' = <<>>
  /\ text' = NoText
  /\ req' = [method |-> "GET", url |-> DEFAULT_METRICS_PATH]
  /\ response' = NoResponse
  /\ UNCHANGED <<source, reply, snapshot, cfg, registry, scrapes, tasks, writer, parsing>>

(* match x::fetch(source, ..): the call                                    *)
metrics_call ==
  /\ pc \in DOMAIN cfg
  /\ snapshot.result = "idle"
  /\ source' = cfg[pc]
  /\ reply' = <<>>
  /\ snapshot' = [Nothing EXCEPT !.result = "pending"]
  /\ trace' = Append(trace, [op |-> "call", source |-> pc, result |-> "pending"])
  /\ UNCHANGED <<cfg, pc, registry, text, scrapes, req, response, tasks, writer, parsing>>

(* a loop that goes on to the next source without waiting for fetch       *)
metrics_return_unawaited ==
  /\ pc \in DOMAIN cfg
  /\ snapshot.result \in {"pending", "Ok", "Err"}
  /\ registry' = [registry EXCEPT ![pc] = Written(@, snapshot)]
  /\ trace' = Append(trace, [op |-> "return", source |-> pc,
                             result |-> snapshot.result])
  /\ pc' = pc + 1
  /\ reply' = <<>>
  /\ snapshot' = Idle
  /\ UNCHANGED <<source, cfg, text, scrapes, req, response, tasks, writer, parsing>>

(* Ok(_) => {}, Err(e) => error!(..): the loop goes on.  What the fetch    *)
(* set is in REGISTRY by now.                                              *)
metrics_return ==
  /\ pc \in DOMAIN cfg
  /\ snapshot.result \in {"Ok", "Err"}
  /\ registry' = [registry EXCEPT ![pc] = Written(@, snapshot)]
  /\ trace' = Append(trace, [op |-> "return", source |-> pc,
                             result |-> snapshot.result])
  /\ pc' = pc + 1
  /\ reply' = <<>>
  /\ snapshot' = Idle
  /\ UNCHANGED <<source, cfg, text, scrapes, req, response, tasks, writer, parsing>>

(* fetch panicked: metrics() unwinds, the request ends without a body and  *)
(* the server goes on serving.                                             *)
metrics_unwind ==
  /\ pc \in DOMAIN cfg
  /\ snapshot.result = "panic"
  /\ registry' = [registry EXCEPT ![pc] = Written(@, snapshot)]
  /\ trace' = Append(trace, [op |-> "panic", source |-> pc, result |-> "panic"])
  /\ pc' = 0
  /\ scrapes' = scrapes + 1
  /\ reply' = <<>>
  /\ snapshot' = Idle
  /\ response' = NoResponse
  /\ UNCHANGED <<source, cfg, text, req, tasks, writer, parsing>>

(* encoder.encode_utf8(&REGISTRY.gather(), &mut buffer); buffer            *)
metrics_render ==
  /\ pc = Len(cfg) + 1
  /\ text' = <<registry>>
  /\ trace' = Append(trace, [op |-> "render", source |-> 0, result |-> "Ok"])
  /\ pc' = 0
  /\ scrapes' = scrapes + 1
  /\ response' = [status |-> 200, payload |-> "reply"]
  /\ UNCHANGED <<source, reply, snapshot, cfg, registry, req, tasks, writer, parsing>>

ScrapeNext ==
  \/ server_respond
  \/ metrics_enter
  \/ metrics_call
  \/ FlexlmFetch
  \/ RlmFetch
  \/ LmxFetch
  \/ OlicenseFetch
  \/ DslsFetch
  \/ HaspFetch
  \/ Licman20Fetch
  \/ metrics_return
  \/ metrics_unwind
  \/ metrics_render

ScrapeSpec == ScrapeInit /\ [][ScrapeNext]_vars

(***************************************************************************)
(* main.rs: the route maps every GET of the metrics path to                *)
(* exporter::metrics(&config) on the thread that serves the connection;    *)
(* nothing keeps two of them apart.  Two requests, a and b, and one FlexLM *)
(* source: each calls flexlm::fetch, which reads the answer of its own run *)
(* of the tool and sets the gauge vectors of REGISTRY one after another.   *)
(***************************************************************************)
Tasks == {"a", "b"}

(* the order in which flexlm::fetch sets its gauge vectors: issued and     *)
(* used in the loop over the lines, the expiration gauges in               *)
(* fetch_expiration, then the server status and the users                  *)
WriteOrder == <<"issued", "used", "expiration", "aggregated", "status", "users">>

NoWriter == [f \in Range(WriteOrder) |-> "none"]

IdleTask == [at |-> "idle", snapshot |-> Idle, todo |-> <<>>]

(* the gauge vectors for which a fetch holds series to set                 *)
Todo(snap) == SelectSeq(WriteOrder, LAMBDA f : snap[f] # <<>>)

(* the series of a source after one gauge vector f of snap was set         *)
WrittenOne(series, snap, f) ==
  [series EXCEPT ![f] = Written(series, snap)[f]]

(* a request that would have to wait for the other one                     *)
admitted_one_at_a_time(t) ==
  \A u \in Tasks \ {t} : tasks[u].at \in {"idle", "returned"}

(* the route takes no lock before it calls metrics()                       *)
admitted(t) == TRUE

OverlapInit ==
  /\ cfg \in {c \in Configurations : Len(c) = 1 /\ c[1].kind = "flexlm"}
  /\ pc = 0
  /\ registry = [i \in DOMAIN cfg |-> NoSeries]
  /\ trace = <<>>
  /\ text = NoText
  /\ scrapes = 0
  /\ req = NoRequest
  /\ response = NoResponse
  /\ source = NoSource
  /\ reply = <<>>
  /\ snapshot = Idle
  /\ tasks = [t \in Tasks |-> IdleTask]
  /\ writer = NoWriter
  /\ input = <<>>
  /\ output = NotCalled

(* the request reaches flexlm::fetch(flex, &lmutil)                        *)
route_call(t) ==
  /\ tasks[t].at = "idle"
  /\ admitted(t)
  /\ tasks' = [tasks EXCEPT ![t].at = "called"]
  /\ UNCHANGED <<cfg, registry, writer, sequential>>

(* its run of lmstat returned: what this fetch is going to set             *)
route_fetch(t) ==
  /\ tasks[t].at = "called"
  /\ \E stat \in Commands(LmstatLines, Budget) :
       \E exp \in IF /\ stat.status = "ok"
                     /\ HasServers(stat.lines)
                     /\ flexlm_completes(stat.lines)
                  THEN Commands(LmstatExpirationLines, Budget - Lines(stat))
                  ELSE {NotRun} :
         LET snap == flexlm_fetch(cfg[1], stat, exp) IN
         tasks' = [tasks EXCEPT ![t] = [at |-> "writing", snapshot |-> snap,
                                        todo |-> Todo(snap)]]
  /\ UNCHANGED <<cfg, registry, writer, sequential>>

(* it sets the next gauge vector                                           *)
route_set(t) ==
  /\ tasks[t].at = "writing"
  /\ tasks[t].todo # <<>>
  /\ LET f == Head(tasks[t].todo) IN
       /\ registry' = [registry EXCEPT ![1] = WrittenOne(@, tasks[t].snapshot, f)]
       /\ writer' = [writer EXCEPT ![f] = t]
  /\ tasks' = [tasks EXCEPT ![t].todo = Tail(@)]
  /\ UNCHANGED <<cfg, sequential>>

(* fetch is over                                                           *)
route_return(t) ==
  /\ tasks[t].at = "writing"
  /\ tasks[t].todo = <<>>
  /\ tasks' = [tasks EXCEPT ![t].at = "returned"]
  /\ UNCHANGED <<cfg, registry, writer, sequential>>

OverlapNext ==
  \/ \E t \in Tasks : route_call(t)
  \/ \E t \in Tasks : route_fetch(t)
  \/ \E t \in Tasks : route_set(t)
  \/ \E t \in Tasks : route_return(t)

OverlapSpec == OverlapInit /\ [][OverlapNext]_vars

(***************************************************************************)
(* A parsing function on its own: nothing is fetched or served.            *)
(***************************************************************************)
others == <<source, reply, snapshot, cfg, pc, registry, trace, text, scrapes,
            req, response, tasks, writer>>

Quiet ==
  /\ source = NoSource
  /\ reply = <<>>
  /\ snapshot = Idle
  /\ cfg = <<>>
  /\ pc = 0
  /\ registry = <<>>
  /\ trace = <<>>
  /\ text = NoText
  /\ scrapes = 0
  /\ req = NoRequest
  /\ response = NoResponse
  /\ tasks = <<>>
  /\ writer = <<>>

(***************************************************************************)
(* hasp.rs: massage and the decoding of what it returns.  A body is a      *)
(* sequence of pieces of text: "{" opens an object and "}" closes it (the  *)
(* text of an object is its string values), "x" is any other text, ","     *)
(* separates objects, "/*" and "*/" are the comment marks, CR and LF the   *)
(* line breaks.                                                            *)
(***************************************************************************)
MaxBody == 5

CR == "\r"
LF == "\n"

BodyPieces == {"{", "}", "x", ",", "/*", "*/", CR, LF}

Bodies == SeqsUpTo(BodyPieces, MaxBody)

(* b0rken.replace('\r', "").replace('\n', "")                              *)
unbroken(b0rken) == SelectSeq(b0rken, LAMBDA piece : piece \notin {CR, LF})

(* RE_C_STYLE_COMMENT.replace_all(&massaged, ""): every leftmost match of  *)
(* "/*", as little as possible, "*/" is taken out                          *)
RECURSIVE replace_all(_)
replace_all(s) ==
  IF s = <<>> THEN <<>>
  ELSE LET ends == {j \in 2..Len(s) : s[j] = "*/"} IN
       IF Head(s) = "/*" /\ ends # {}
       THEN replace_all(SubSeq(s, (CHOOSE j \in ends : \A k \in ends : j <= k) + 1,
                               Len(s)))
       ELSE <<Head(s)>> \o replace_all(Tail(s))

massage(b0rken) == <<"[ ">> \o replace_all(unbroken(b0rken)) \o <<" ]">>

(* serde_json::from_str::<Vec<_>> on the text between the brackets: the    *)
(* objects, or Err for text that is not a list of objects                  *)
RECURSIVE from_str_elements(_)
from_str_elements(s) ==
  LET closes == {j \in 2..Len(s) : s[j] = "}"} IN
  IF s = <<>> \/ Head(s) # "{" \/ closes = {} THEN Err
  ELSE LET close == CHOOSE j \in closes : \A k \in closes : j <= k
           object == SubSeq(s, 2, close - 1)
           rest == SubSeq(s, close + 1, Len(s))
       IN  IF \E i \in DOMAIN object : object[i] \notin {"x", "/*", "*/"} THEN Err
           ELSE IF rest = <<>> THEN Ok(<<object>>)
           ELSE IF Head(rest) # "," THEN Err
           ELSE LET more == from_str_elements(Tail(rest)) IN
                IF more = Err THEN Err ELSE Ok(<<object>> \o more[1])

from_str(json) ==
  IF Len(json) < 2 \/ json[1] # "[ " \/ json[Len(json)] # " ]" THEN Err
  ELSE IF Len(json) = 2 THEN Ok(<<>>)
  ELSE from_str_elements(SubSeq(json, 2, Len(json) - 1))

MassageInit ==
  /\ Quiet
  /\ input \in Bodies
  /\ output = NotCalled

(* serde_json::from_str(&massage(reply))                                   *)
HaspMassage ==
  /\ ~output.done
  /\ output' = [done |-> TRUE, massaged |-> massage(input),
                features |-> from_str(massage(input))]
  /\ UNCHANGED <<input, others>>

MassageNext == HaspMassage

MassageSpec == MassageInit /\ [][MassageNext]_vars

(***************************************************************************)
(* What the properties below read off a fetch.                             *)
(***************************************************************************)
Fetched == snapshot.result # "pending"

Excluded(name) == is_excluded(source.excluded_features, name)

(* the feature name among the labels of an issued / used gauge: OLicense   *)
(* labels them (vendor, name, module), the others put the name first.      *)
FeatureLabel(labels) == IF source.kind = "olicense" THEN labels[2] ELSE labels[1]

RECURSIVE LicenseSum(_)
LicenseSum(gauges) ==
  IF gauges = <<>> THEN 0 ELSE Head(gauges).licenses + LicenseSum(Tail(gauges))

(* the expiration gauges without their index, and the collected records    *)
(* in the same shape                                                       *)
Emitted == [i \in DOMAIN snapshot.expiration |->
              [name |-> snapshot.expiration[i].name,
               licenses |-> snapshot.expiration[i].licenses,
               value |-> snapshot.expiration[i].value]]

Encountered == [i \in DOMAIN snapshot.expiring |->
                  [name |-> snapshot.expiring[i].feature,
                   licenses |-> snapshot.expiring[i].license_count,
                   value |-> snapshot.expiring[i].expiration]]

RECURSIVE IsSubsequence(_, _)
IsSubsequence(a, b) ==
  IF a = <<>> THEN TRUE
  ELSE IF b = <<>> THEN FALSE
  ELSE IF Head(a) = Head(b) THEN IsSubsequence(Tail(a), Tail(b))
  ELSE IsSubsequence(a, Tail(b))

RECURSIVE CountAt(_, _)
CountAt(expiring, instant) ==
  IF expiring = <<>> THEN 0
  ELSE (IF Head(expiring).expiration = instant THEN Head(expiring).license_count
        ELSE 0)
       + CountAt(Tail(expiring), instant)

(* What the server configured at position i answered, and whether that     *)
(* answer is a healthy one: LM-X needs a parsed document with STATUS       *)
(* SUCCESS, OLicense a parsed document, DSLS a "Ready: yes" line.          *)
Answer(i) ==
  LET at == IndexOf(reply.order, source.license[i]) IN
  IF source.kind = "olicense" THEN reply.replies[at] ELSE reply.cmds[at]

Healthy(i) ==
  LET r == Answer(i) IN
  /\ r.status = "ok"
  /\ CASE source.kind = "lmx" ->
            /\ lmx_parse_xml(r.lines) # Err
            /\ lmx_parse_xml(r.lines)[1].server_status = "SUCCESS"
       [] source.kind = "olicense" -> olicense_parse_xml(r.lines) # Err
       [] OTHER -> \E j \in DOMAIN r.lines : r.lines[j] = DslsReady("yes")

HasStatus(server) == \E l \in DOMAIN snapshot.status : l[1] = server

(***************************************************************************)
(* C1.  Usage exclusion: whatever the adapter, the exclusion list and the  *)
(* output of the transport, a fetch writes no issued / used value for a    *)
(* feature whose name is in the source's excluded_features.                 *)
(* Refuted: hasp.rs tests the feature id, not the name the gauge carries.  *)
(***************************************************************************)
UsageExclusion ==
  \A l \in (DOMAIN snapshot.issued) \cup (DOMAIN snapshot.used) :
    ~Excluded(FeatureLabel(l))

(***************************************************************************)
(* C2.  Per-user exclusion: a fetch writes no per-user checkout value for  *)
(* a feature whose name is in excluded_features, also for checkouts found  *)
(* on the lines after the excluded feature's header line.                  *)
(* Refuted: flexlm.rs keeps the excluded feature as the current one and    *)
(* exports its checkouts unchecked; licman20.rs tests the product key.     *)
(***************************************************************************)
PerUserExclusion == \A l \in DOMAIN snapshot.users : ~Excluded(l[1])

(***************************************************************************)
(* C3.  Expiration exclusion: a fetch emits no expiration gauge for a      *)
(* feature whose name is in excluded_features.                             *)
(* Refuted: fetch_expiration of flexlm.rs never consults the list.         *)
(***************************************************************************)
ExpirationExclusion ==
  \A i \in DOMAIN snapshot.expiration : ~Excluded(snapshot.expiration[i].name)

(***************************************************************************)
(* C4.  Index contiguity: the N expiration gauges of a fetch carry the     *)
(* indices 1..N, each once, and follow the order in which the records were *)
(* met while parsing, also when excluded or unparsable records lie between *)
(* the emitted ones.                                                       *)
(***************************************************************************)
IndexContiguity ==
  /\ \A i \in DOMAIN snapshot.expiration : snapshot.expiration[i].index = i
  /\ IsSubsequence(Emitted, Encountered)

(* an excluded record between two emitted ones                             *)
IndexContiguityWitness ==
  /\ Len(snapshot.expiring) = 3
  /\ Excluded(snapshot.expiring[2].feature)
  /\ Len(snapshot.expiration) = 2
  /\ snapshot.expiration[2].index = 2

(***************************************************************************)
(* C5.  Bucket ordering: the M aggregated gauges of a fetch carry the      *)
(* indices 0..M-1, their expiration instant grows strictly with the index, *)
(* and the bucket of the perpetual licenses, if any, has the highest one.  *)
(***************************************************************************)
BucketOrdering ==
  /\ \A i \in DOMAIN snapshot.aggregated : snapshot.aggregated[i].index = i - 1
  /\ \A i, j \in DOMAIN snapshot.aggregated :
       i < j => snapshot.aggregated[i].value < snapshot.aggregated[j].value
  /\ \A i \in DOMAIN snapshot.aggregated :
       snapshot.aggregated[i].value = INFINITY => i = Len(snapshot.aggregated)

(* the perpetual record was met first and a dated one after it             *)
BucketOrderingWitness ==
  /\ Len(snapshot.expiring) >= 2
  /\ snapshot.expiring[1].expiration = INFINITY
  /\ Len(snapshot.aggregated) = 2
  /\ snapshot.aggregated[2].value = INFINITY

(***************************************************************************)
(* C6.  Aggregation conservation: the license counts of the aggregated     *)
(* gauges of a fetch add up to the license counts of the expiration gauges *)
(* of the same fetch.                                                      *)
(* Refuted: dsls.rs, licman20.rs and hasp.rs group records of excluded     *)
(* features that they do not emit.                                         *)
(***************************************************************************)
AggregationConservation ==
  LicenseSum(snapshot.aggregated) = LicenseSum(snapshot.expiration)

(***************************************************************************)
(* C7.  Bucket grouping: a fetch emits one aggregated gauge for each       *)
(* distinct instant among the expiration records it collected and no       *)
(* other; each carries the number of collected records with exactly that   *)
(* instant and the sum of their counts.                                    *)
(***************************************************************************)
BucketGrouping ==
  LET instants == {snapshot.expiring[j].expiration : j \in DOMAIN snapshot.expiring}
  IN  /\ Len(snapshot.aggregated) = Cardinality(instants)
      /\ {snapshot.aggregated[i].value : i \in DOMAIN snapshot.aggregated} = instants
      /\ \A i \in DOMAIN snapshot.aggregated :
           LET b == snapshot.aggregated[i] IN
           /\ b.features = Cardinality({j \in DOMAIN snapshot.expiring :
                                          snapshot.expiring[j].expiration = b.value})
           /\ b.licenses = CountAt(snapshot.expiring, b.value)

(* two records share an instant, a third has another                       *)
BucketGroupingWitness ==
  /\ Len(snapshot.expiring) = 3
  /\ Len(snapshot.aggregated) = 2
  /\ \E i \in DOMAIN snapshot.aggregated : snapshot.aggregated[i].features = 2

(***************************************************************************)
(* C8.  HA first-success-wins (LM-X, OLicense): a fetch over three         *)
(* endpoints takes its feature data from at most one endpoint's payload;   *)
(* when only the second configured endpoint is healthy the data are the    *)
(* second's and each of the three endpoints has a server-status entry.     *)
(* Refuted: lmx.rs returns from fetch at the first endpoint whose command  *)
(* fails, before the endpoints after it are asked.                         *)
(***************************************************************************)
HAFirstSuccessWins ==
  (Fetched /\ source.kind \in {"lmx", "olicense"} /\ Len(source.license) = 3) =>
    /\ Len(snapshot.exported) <= 1
    /\ (~Healthy(1) /\ Healthy(2) /\ ~Healthy(3)) =>
         /\ snapshot.exported = <<source.license[2]>>
         /\ \A i \in DOMAIN source.license : HasStatus(source.license[i])

(***************************************************************************)
(* C9.  HA configured order (LM-X, OLicense, DSLS): the endpoints are      *)
(* asked in the order of the configured license string, and the payload    *)
(* used is that of the first healthy endpoint in that order.               *)
(* Refuted: the three adapters iterate a HashMap keyed by server name.     *)
(***************************************************************************)
HAConfiguredOrder ==
  (Fetched /\ source.kind \in {"lmx", "olicense", "dsls"}) =>
    /\ snapshot.queried = SubSeq(source.license, 1, Len(snapshot.queried))
    /\ \A i \in DOMAIN source.license :
         (Healthy(i) /\ \A j \in 1..(i - 1) : ~Healthy(j)) =>
           (snapshot.exported # <<>> => snapshot.exported[1] = source.license[i])

(***************************************************************************)
(* C10.  Per-endpoint status (LM-X, OLicense, DSLS): after a fetch every   *)
(* configured endpoint has a server-status entry, whatever the endpoint or *)
(* one asked before it answered (non-zero exit, HTTP failure, unparsable   *)
(* output, no version line).                                               *)
(* Refuted: lmx.rs and dsls.rs return on a failed command, and dsls.rs     *)
(* writes the entry only for a server whose version line it has seen.      *)
(***************************************************************************)
PerEndpointStatus ==
  (Fetched /\ source.kind \in {"lmx", "olicense", "dsls"}) =>
    \A i \in DOMAIN source.license : HasStatus(source.license[i])

(***************************************************************************)
(* The records of a fetch's replies whose expiration field is a sentinel   *)
(* of the adapter's tool ("permanent", "1-jan-0", "01-jan-0000" for lmstat,*)
(* "permanent" for rlmstat, "Perpetual" for the HASP key), as the          *)
(* expiration entries they are to yield, in the order of the reply.  A     *)
(* record counts when the exclusion list names neither its feature nor its *)
(* feature id and, for rlmstat, a feature line precedes it.                *)
(***************************************************************************)
RECURSIVE FlexlmPerpetual(_)
FlexlmPerpetual(lines) ==
  IF lines = <<>> THEN <<>>
  ELSE (IF Head(lines).expiration \in {"permanent", "1-jan-0", "01-jan-0000"}
        THEN <<[name |-> Head(lines).feature, licenses |-> Head(lines).count,
                value |-> INFINITY]>>
        ELSE <<>>)
       \o FlexlmPerpetual(Tail(lines))

RECURSIVE RlmPerpetual(_, _)
RlmPerpetual(lines, feature) ==
  IF lines = <<>> THEN <<>>
  ELSE LET line == Head(lines) IN
       CASE line.k = "feature" -> RlmPerpetual(Tail(lines), line.feature)
         [] line.k = "usage" ->
              (IF feature # "" /\ ~Excluded(feature) /\ line.exp = "permanent"
               THEN <<[name |-> feature, licenses |-> line.count,
                       value |-> INFINITY]>>
               ELSE <<>>)
              \o RlmPerpetual(Tail(lines), feature)
         [] OTHER -> RlmPerpetual(Tail(lines), feature)

RECURSIVE HaspPerpetual(_)
HaspPerpetual(features) ==
  IF features = <<>> THEN <<>>
  ELSE LET feat == Head(features)
           fname == IF feat.fn = <<>> \/ feat.fn[1] = "" THEN feat.fid[1]
                    ELSE feat.fn[1]
       IN  (IF /\ feat.fid # <<>> /\ feat.logc # <<>> /\ feat.logl # <<>>
               /\ feat.lic = <<"Perpetual">>
               /\ ~Excluded(feat.fid[1]) /\ ~Excluded(fname)
            THEN <<[name |-> fname, licenses |-> feat.logl[1], value |-> INFINITY]>>
            ELSE <<>>)
           \o HaspPerpetual(Tail(features))

Perpetual ==
  CASE source.kind = "flexlm" /\ reply.exp.status = "ok" ->
         FlexlmPerpetual(reply.exp.lines)
    [] source.kind = "rlm" /\ reply.stat.status = "ok" ->
         RlmPerpetual(reply.stat.lines, "")
    [] source.kind = "hasp" /\ reply.feat.status = "ok" ->
         HaspPerpetual(reply.feat.lines)
    [] OTHER -> <<>>

RECURSIVE Unbounded(_)
Unbounded(gauges) ==
  IF gauges = <<>> THEN <<>>
  ELSE (IF Head(gauges).value = INFINITY THEN <<Head(gauges)>> ELSE <<>>)
       \o Unbounded(Tail(gauges))

(***************************************************************************)
(* C11.  Sentinel mapping: after a fetch that returned Ok, the expiration  *)
(* gauges with the value +infinity are exactly the records of the reply    *)
(* whose expiration field is "permanent", "1-jan-0", "01-jan-0000" (lmstat,*)
(* rlmstat's "permanent") or "Perpetual" (HASP), each with its feature     *)
(* name and license count, in the order of the reply: none of them is      *)
(* dropped as an unparsable date and no other record becomes infinite.     *)
(* Refuted: a line of lmstat -i in the order vendor, expiration whose      *)
(* expiration is "permanent" is read by the expression of the other order  *)
(* and dropped (see C32).                                                  *)
(***************************************************************************)
SentinelMapping ==
  (Fetched /\ snapshot.result = "Ok") => Unbounded(Emitted) = Perpetual

(* lmstat -i printed "1-jan-0" for one feature and "01-jan-0000" for       *)
(* another, and both got an expiration gauge of +infinity                  *)
SentinelMappingWitness ==
  /\ source.kind = "flexlm"
  /\ snapshot.result = "Ok"
  /\ reply.exp.status = "ok"
  /\ \E i, j \in DOMAIN reply.exp.lines :
       /\ reply.exp.lines[i].expiration = "1-jan-0"
       /\ reply.exp.lines[j].expiration = "01-jan-0000"
  /\ Len(Unbounded(Emitted)) = 2

(***************************************************************************)
(* The records of a fetch's replies that carry an expiration date the      *)
(* adapter's date format accepts (or a sentinel), as the expiration        *)
(* entries they are to yield, in the order of the reply.  A record counts  *)
(* when the exclusion list names neither its feature nor its feature id.   *)
(* The reply read is the one the adapter takes its features from: for      *)
(* LM-X the features parse_xml handed over for the exported server, for    *)
(* OLicense the first well-formed document in the order the servers were   *)
(* asked, for DSLS the first short CSV listing that was delivered.         *)
(***************************************************************************)
Entry(name, licenses, date) ==
  IF date = Err \/ Excluded(name) THEN <<>>
  ELSE <<[name |-> name, licenses |-> licenses, value |-> date[1]]>>

RECURSIVE FlexlmParsable(_)
FlexlmParsable(lines) ==
  IF lines = <<>> THEN <<>>
  ELSE Entry(Head(lines).feature, Head(lines).count,
             flexlm_expiration(Head(lines).expiration))
       \o FlexlmParsable(Tail(lines))

RECURSIVE RlmParsable(_, _)
RlmParsable(lines, feature) ==
  IF lines = <<>> THEN <<>>
  ELSE LET line == Head(lines) IN
       CASE line.k = "feature" -> RlmParsable(Tail(lines), line.feature)
         [] line.k = "usage" ->
              (IF feature = "" THEN <<>>
               ELSE Entry(feature, line.count, rlm_expiration(line.exp)))
              \o RlmParsable(Tail(lines), feature)
         [] OTHER -> RlmParsable(Tail(lines), feature)

RECURSIVE LmxParsable(_)
LmxParsable(features) ==
  IF features = <<>> THEN <<>>
  ELSE Entry(Head(features).feature, Head(features).total,
             parse_from_str(Midnight(Head(features).expiration_str),
                            "%Y-%m-%d %H:%M:%S"))
       \o LmxParsable(Tail(features))

RECURSIVE OlicenseParsable(_)
OlicenseParsable(elements) ==
  IF elements = <<>> THEN <<>>
  ELSE Entry(Head(elements).name, Head(elements).floatCount,
             parse_from_str(Midnight(Head(elements).expiration),
                            "%Y-%m-%d %H:%M:%S"))
       \o OlicenseParsable(Tail(elements))

RECURSIVE DslsParsable(_)
DslsParsable(lines) ==
  IF lines = <<>> THEN <<>>
  ELSE (IF Head(lines).k # "row" THEN <<>>
        ELSE Entry(Head(lines).feature, Head(lines).count,
                   parse_from_str(Head(lines).expiration_date,
                                  "%Y-%m-%d %H:%M:%S")))
       \o DslsParsable(Tail(lines))

RECURSIVE HaspParsable(_)
HaspParsable(features) ==
  IF features = <<>> THEN <<>>
  ELSE LET feat == Head(features)
           fname == IF feat.fn = <<>> \/ feat.fn[1] = "" THEN feat.fid[1]
                    ELSE feat.fn[1]
           date == IF feat.lic[1] = "Perpetual" THEN Ok(INFINITY)
                   ELSE parse_from_str(feat.lic[1], "%a %b %d, %Y %H:%M")
       IN  (IF /\ feat.fid # <<>> /\ feat.logc # <<>> /\ feat.logl # <<>>
               /\ feat.lic # <<>>
               /\ ~Excluded(feat.fid[1])
            THEN Entry(fname, feat.logl[1], date)
            ELSE <<>>)
           \o HaspParsable(Tail(features))

(* The entries of the Licman20 listing: an entry runs from its "Product    *)
(* key" line to the next; bad holds when the last "End date" line of the   *)
(* entry did not parse.  The other fields are collected by licman20_line.  *)
RECURSIVE Licman20Parsable(_, _, _)
Licman20Parsable(lines, acc, bad) ==
  LET entry == IF acc.product_key = "" \/ bad THEN <<>>
               ELSE Entry(acc.feature, acc.total, Ok(acc.expiration))
  IN  IF lines = <<>> THEN entry
      ELSE LET line == Head(lines) IN
           CASE line.k = "key" ->
                  entry \o Licman20Parsable(Tail(lines), licman20_line(line, acc), FALSE)
             [] line.k = "end" ->
                  Licman20Parsable(Tail(lines), licman20_line(line, acc),
                    parse_from_str(Midnight(line.end_date), "%d-%b-%Y %H:%M:%S") = Err)
             [] OTHER -> Licman20Parsable(Tail(lines), licman20_line(line, acc), bad)

(* the first reply among rs, in the order asked, that satisfies good       *)
FirstOf(rs, good(_)) ==
  IF \E i \in DOMAIN rs : good(rs[i])
  THEN <<rs[CHOOSE i \in DOMAIN rs :
               good(rs[i]) /\ \A j \in 1..(i - 1) : ~good(rs[j])]>>
  ELSE <<>>

Delivered(r) == r.status = "ok"

WellFormed(r) == r.status = "ok" /\ r.lines.xml = "ok"

Parsable ==
  CASE source.kind = "flexlm" ->
         IF reply.exp.status = "ok" THEN FlexlmParsable(reply.exp.lines) ELSE <<>>
    [] source.kind = "rlm" ->
         IF reply.stat.status = "ok" THEN RlmParsable(reply.stat.lines, "") ELSE <<>>
    [] source.kind = "lmx" ->
         IF snapshot.exported = <<>> THEN <<>>
         ELSE LmxParsable(lmx_parse_xml(
                reply.cmds[IndexOf(reply.order, snapshot.exported[1])].lines)[1].features)
    [] source.kind = "olicense" ->
         LET first == FirstOf(reply.replies, WellFormed) IN
         IF first = <<>> THEN <<>> ELSE OlicenseParsable(first[1].lines.license)
    [] source.kind = "dsls" ->
         LET first == FirstOf(reply.exps, Delivered) IN
         IF first = <<>> THEN <<>> ELSE DslsParsable(first[1].lines)
    [] source.kind = "hasp" ->
         IF reply.feat.status = "ok" THEN HaspParsable(reply.feat.lines) ELSE <<>>
    [] source.kind = "licman20" ->
         IF reply.cmd.status = "ok"
         THEN Licman20Parsable(reply.cmd.lines,
                [feature |-> "", product_key |-> "", total |-> 0, used |-> 0,
                 expiration |-> 0, licenses |-> <<>>, expiring |-> <<>>,
                 product_key_map |-> <<>>], FALSE)
         ELSE <<>>

RECURSIVE Kept(_)
Kept(gauges) ==
  IF gauges = <<>> THEN <<>>
  ELSE (IF Excluded(Head(gauges).name) THEN <<>> ELSE <<Head(gauges)>>)
       \o Kept(Tail(gauges))

RECURSIVE FeatureSum(_)
FeatureSum(gauges) ==
  IF gauges = <<>> THEN 0 ELSE Head(gauges).features + FeatureSum(Tail(gauges))

(***************************************************************************)
(* C12.  Non-fatal date failure: after a fetch that returned Ok, the       *)
(* expiration gauges of the features that are not excluded are exactly the *)
(* records of the reply whose date parses, in the reply's order, so that a *)
(* record with an unparsable date is absent and every other record         *)
(* present; with an empty exclusion list the aggregated buckets count      *)
(* exactly those records.                                                  *)
(* Refuted: dsls.rs leaves fetch_expiration at the first date that does    *)
(* not parse, parse_xml of olicense.rs rejects the whole document, and     *)
(* licman20.rs keeps the entry with the date of the entry before it.       *)
(***************************************************************************)
NonFatalDateFailure ==
  (Fetched /\ snapshot.result = "Ok") =>
    /\ Kept(Emitted) = Parsable
    /\ source.excluded_features = <<>> =>
         FeatureSum(snapshot.aggregated) = Len(Parsable)

(***************************************************************************)
(* The replies to the queries a fetch sent: those of the servers it asked, *)
(* in the order asked, and those of its later queries that were run.       *)
(***************************************************************************)
Ran ==
  LET asked(rs) == {rs[i] : i \in 1..Len(snapshot.queried)}
      all == CASE source.kind = "flexlm" -> {reply.stat, reply.exp}
               [] source.kind = "rlm" ->
                    {reply.stat, reply.checkouts} \cup Range(reply.status)
               [] source.kind = "lmx" -> asked(reply.cmds)
               [] source.kind = "olicense" -> asked(reply.replies)
               [] source.kind = "dsls" -> asked(reply.cmds) \cup Range(reply.exps)
               [] source.kind = "hasp" -> {reply.feat, reply.sess}
               [] source.kind = "licman20" -> {reply.cmd, reply.checkouts}
  IN  {r \in all : r # NotRun}

(* the command could not be spawned or exited non-zero, or the GET failed  *)
TransportFailed(r) == r.status \in {"spawn", "nonzero", "http"}

(***************************************************************************)
(* C13.  Transport failure aborts and is reported: when a command a fetch  *)
(* ran could not be spawned or exited non-zero, or an HTTP GET of the      *)
(* fetch failed, fetch returns Err.                                        *)
(* Refuted: the adapters log and swallow the failure of every query after  *)
(* the first (fetch_expiration, fetch_checkouts, fetch_status), and        *)
(* olicense.rs records a failed GET as server status 0 and returns Ok.     *)
(***************************************************************************)
TransportFailureReported ==
  (Fetched /\ \E r \in Ran : TransportFailed(r)) => snapshot.result = "Err"

(***************************************************************************)
(* Every query the fetch sent was answered, and each answer is a document  *)
(* as a whole: well-formed XML for LM-X and OLicense, a JSON list for      *)
(* HASP.                                                                   *)
(***************************************************************************)
Answered ==
  \A r \in Ran :
    /\ ~TransportFailed(r)
    /\ r.status # "json"
    /\ source.kind \in {"lmx", "olicense"} => r.lines.xml # "malformed"

(* a HASP feature object with an id that lacks lic, logc or logl           *)
Incomplete(feat) ==
  feat.fid # <<>> /\ (feat.lic = <<>> \/ feat.logc = <<>> \/ feat.logl = <<>>)

(***************************************************************************)
(* C14.  Record-level parse errors do not abort: when every query of a     *)
(* fetch was answered with a document, fetch returns Ok, whatever single   *)
(* line, attribute or field of the answers fails its pattern or its        *)
(* numeric conversion (a HASP object without a mandatory field aside).     *)
(* Refuted: dsls.rs returns the error of extract_data with ?, parse_xml of *)
(* lmx.rs the error of a count attribute's parse(), hasp.rs bails on a lic *)
(* field without a date, and flexlm.rs panics on a server entry without    *)
(* '@'.                                                                    *)
(***************************************************************************)
RecordErrorsDoNotAbort ==
  (/\ Fetched
   /\ Answered
   /\ source.kind = "hasp" =>
        \A i \in DOMAIN reply.feat.lines : ~Incomplete(reply.feat.lines[i]))
  => snapshot.result = "Ok"

(* the name a HASP feature object is exported under: fn, or the id when fn *)
(* is missing or empty                                                     *)
HaspName(feat) ==
  IF feat.fn = <<>> \/ feat.fn[1] = "" THEN feat.fid[1] ELSE feat.fn[1]

(***************************************************************************)
(* C15.  HASP structural error: when the feature list of a HASP fetch      *)
(* holds an object with a feature id, of a feature that is not excluded,   *)
(* which lacks lic, logc or logl, fetch returns Err and the fetch sets no  *)
(* expiration gauge and no aggregated gauge.                               *)
(* Refuted: hasp.rs tests the exclusion list against the feature id (see   *)
(* C1), so an incomplete object whose id is in the list is passed over     *)
(* although its feature is not excluded.                                   *)
(***************************************************************************)
StructuralErrorAborts ==
  (/\ Fetched
   /\ source.kind = "hasp"
   /\ reply.feat.status = "ok"
   /\ \E i \in DOMAIN reply.feat.lines :
        /\ Incomplete(reply.feat.lines[i])
        /\ ~Excluded(HaspName(reply.feat.lines[i])))
  => /\ snapshot.result = "Err"
     /\ snapshot.expiration = <<>>
     /\ snapshot.aggregated = <<>>

(***************************************************************************)
(* C17.  Failed fetch leaves the sink untouched: a fetch that returns Err  *)
(* has set no gauge: no issued / used value, no per-user value, no         *)
(* expiration or aggregated gauge and no server status.                    *)
(* Refuted: hasp.rs sets the server status before it returns the error of  *)
(* the GET and sets the feature gauges of an object before it bails on the *)
(* object's missing lic field; lmx.rs has set the gauges of the servers    *)
(* asked before the one whose command fails.                               *)
(***************************************************************************)
FailedFetchLeavesSink ==
  snapshot.result = "Err" =>
    /\ snapshot.issued = NoGauge
    /\ snapshot.used = NoGauge
    /\ snapshot.users = NoGauge
    /\ snapshot.status = NoGauge
    /\ snapshot.expiration = <<>>
    /\ snapshot.aggregated = <<>>

(***************************************************************************)
(* The place of a query in the order of the steps of a fetch.              *)
(***************************************************************************)
Rank(q) ==
  CASE q = "usage" -> 1
    [] q \in {"expiration", "status"} -> 2
    [] q = "checkouts" -> 3

(* rlm.rs runs fetch_status after fetch_checkouts                          *)
RankInCode(q) == IF source.kind = "rlm" /\ q = "status" THEN 4 ELSE Rank(q)

(* the usage query (of every server asked, for DSLS) was answered          *)
UsageSucceeded ==
  CASE source.kind \in {"flexlm", "rlm"} -> reply.stat.status = "ok"
    [] source.kind = "licman20" -> reply.cmd.status = "ok"
    [] source.kind = "hasp" -> reply.feat.status = "ok"
    [] source.kind = "dsls" ->
         \A i \in 1..Len(snapshot.queried) : reply.cmds[i].status = "ok"
    [] OTHER -> TRUE

InOrder(rank(_)) ==
  /\ snapshot.transports[1] = "usage"
  /\ \A i, j \in DOMAIN snapshot.transports :
       i < j => rank(snapshot.transports[i]) <= rank(snapshot.transports[j])
  /\ (\E i \in DOMAIN snapshot.transports : snapshot.transports[i] # "usage")
       => UsageSucceeded

(***************************************************************************)
(* C20.  Step order inside a fetch, as claimed: the queries of a fetch are *)
(* sent in the order usage query, then expiration or status query, then    *)
(* checkout query, and a query after the usage query is sent only when the *)
(* usage query succeeded.                                                  *)
(* Refuted as stated: rlm.rs sends its checkout query before its status    *)
(* query.                                                                  *)
(***************************************************************************)
StepOrder == Fetched => InOrder(Rank)

(***************************************************************************)
(* C20, amended.  The queries of a fetch are sent in the order usage       *)
(* query, then expiration query, then checkout query, with the server      *)
(* status query of RLM last, after its checkout query; a query other than  *)
(* a usage query is sent only when the usage query succeeded.              *)
(***************************************************************************)
StepOrderInCode == Fetched => InOrder(RankInCode)

(* an RLM fetch with per-user export sent all three of its queries         *)
StepOrderInCodeWitness ==
  /\ source.kind = "rlm"
  /\ snapshot.transports = <<"usage", "checkouts", "status">>
  /\ reply.checkouts.status = "ok"

(***************************************************************************)
(* Requests served by metrics().                                           *)
(***************************************************************************)
Ended == pc = 0 /\ scrapes > 0

CallsOf(i) == {k \in DOMAIN trace : trace[k].op = "call" /\ trace[k].source = i}

ReturnsOf(i) == {k \in DOMAIN trace : trace[k].op = "return" /\ trace[k].source = i}

(***************************************************************************)
(* C16.  Scrape never fails outright: whatever the sources answer, a       *)
(* request calls fetch for every configured source and ends by returning   *)
(* the encoded registry.                                                   *)
(* Refuted: a server list entry without '@' in the output of lmstat makes  *)
(* flexlm::fetch panic; the sources after it are not fetched and no text   *)
(* is returned.                                                            *)
(***************************************************************************)
ScrapeNeverFails ==
  Ended => /\ \A i \in DOMAIN cfg : CallsOf(i) # {}
           /\ text = <<registry>>

(***************************************************************************)
(* C18.  Stale data ends at the next successful fetch: when fetch returns  *)
(* Ok for a source, every series the registry holds for that source has a  *)
(* value this fetch wrote.                                                 *)
(* Refuted: the series an earlier fetch set for a feature that the tool no *)
(* longer reports stays in the registry with its old value.                *)
(***************************************************************************)
StaleDataEnds ==
  [][(pc \in DOMAIN cfg /\ snapshot.result = "Ok" /\ pc' = pc + 1)
       => registry'[pc] = Written(NoSeries, snapshot)]_vars

(***************************************************************************)
(* C19.  One fetch per source per scrape: a request calls fetch exactly    *)
(* once for each configured source, a call comes only after the call       *)
(* before it returned, and the registry is encoded only after the last     *)
(* call returned.                                                          *)
(* Refuted: after the panic of flexlm::fetch (C16) the sources configured  *)
(* after it are not called at all.                                         *)
(***************************************************************************)
OneFetchPerSource ==
  Ended => /\ \A i \in DOMAIN cfg : Cardinality(CallsOf(i)) = 1
           /\ \A k \in DOMAIN trace :
                (trace[k].op = "call" /\ k > 1) => trace[k - 1].op = "return"
           /\ \A k \in DOMAIN trace :
                trace[k].op = "render"
                  => \A i \in DOMAIN cfg : \E r \in ReturnsOf(i) : r < k

MetricsGet == [method |-> "GET", url |-> DEFAULT_METRICS_PATH]

(***************************************************************************)
(* C21.  Scrape endpoint: fetch is called only while a GET of the metrics  *)
(* path is served, that request is answered with the encoded registry, and *)
(* every other request is answered with a fixed error body.                *)
(* Refuted: a GET of "/" is answered with the page ROOT_HTML, and a GET of *)
(* the metrics path during which flexlm::fetch panics (C16) is not         *)
(* answered at all.                                                        *)
(***************************************************************************)
ScrapeEndpoint ==
  /\ pc \in DOMAIN cfg => req = MetricsGet
  /\ snapshot.result = "pending" => req = MetricsGet
  /\ (pc = 0 /\ req = MetricsGet)
       => response = [status |-> 200, payload |-> "reply"] /\ text = <<registry>>
  /\ (pc = 0 /\ req \notin {NoRequest, MetricsGet})
       => response.payload \in {REPLY_NOT_FOUND, REPLY_METHOD_NOT_ALLOWED}

(***************************************************************************)
(* C22.  Overlapping scrapes are not mutually excluded: while one request  *)
(* is inside fetch for a source, the other request can enter fetch for the *)
(* same source, so the gauges of the source can end up holding values of   *)
(* both.                                                                   *)
(***************************************************************************)
NoMutualExclusion ==
  \A t \in Tasks, u \in Tasks :
    (t # u /\ tasks[t].at = "idle" /\ tasks[u].at \in {"called", "writing"})
      => ENABLED route_call(t)

(* both requests returned; issued holds what a set and used what b set,    *)
(* and the two read different answers                                      *)
NoMutualExclusionWitness ==
  /\ \A t \in Tasks : tasks[t].at = "returned"
  /\ writer["issued"] = "a"
  /\ writer["used"] = "b"
  /\ tasks["a"].snapshot.issued # tasks["b"].snapshot.issued
  /\ registry[1].issued = tasks["a"].snapshot.issued
  /\ registry[1].used = tasks["b"].snapshot.used

(***************************************************************************)
(* The request served by metrics() when the thread that serves it keeps    *)
(* running and every transport call returns: a command exits, or cannot be *)
(* spawned; a GET is answered, or fails, at the latest at the timeout of   *)
(* the client.                                                             *)
(***************************************************************************)
Returning ==
  /\ WF_vars(FlexlmFetch) /\ WF_vars(RlmFetch) /\ WF_vars(LmxFetch)
  /\ WF_vars(OlicenseFetch) /\ WF_vars(DslsFetch) /\ WF_vars(HaspFetch)
  /\ WF_vars(Licman20Fetch)

Running ==
  /\ WF_vars(metrics_call) /\ WF_vars(metrics_return)
  /\ WF_vars(metrics_unwind) /\ WF_vars(metrics_render)

FairScrapeSpec == ScrapeSpec /\ Running /\ Returning

ProcessBased == {"flexlm", "rlm", "lmx", "dsls", "licman20"}

(***************************************************************************)
(* C23.  Termination: when every transport call returns, a request that    *)
(* entered metrics() leaves it again, every fetch it called being over;    *)
(* and as long as the command of a process based source has not returned,  *)
(* the request stays where it is: nothing is set, no later source is       *)
(* called and nothing is encoded.                                          *)
(***************************************************************************)
Termination ==
  /\ (pc # 0) ~> (pc = 0 /\ snapshot.result # "pending")
  /\ [][(snapshot.result = "pending" /\ source.kind \in ProcessBased)
          => UNCHANGED <<pc, trace, registry, text, scrapes, response>>]_vars

(* a request over two sources ended after both fetches returned            *)
TerminationWitness ==
  /\ pc = 0
  /\ scrapes = 1
  /\ Len(cfg) = 2
  /\ Len(trace) = 5
  /\ trace[5].op = "render"

(***************************************************************************)
(* The lines of lmstat -a a FlexLM fetch went through: all of them, or     *)
(* those before the line at which it panicked.                             *)
(***************************************************************************)
LmstatRead ==
  IF source.kind = "flexlm" /\ snapshot.result \in {"Ok", "panic"}
  THEN LET lines == reply.stat.lines
           bad == {i \in DOMAIN lines : lines[i].k = "noat"}
       IN  IF bad = {} THEN lines
           ELSE SubSeq(lines, 1, (CHOOSE i \in bad : \A k \in bad : i <= k) - 1)
  ELSE <<>>

UsageLines(lines, n) == {j \in 1..n : lines[j].k = "usage"}

Last(S) == CHOOSE j \in S : \A k \in S : k <= j

(* the feature of the usage line nearest before line i                     *)
CurrentFeature(lines, i) ==
  IF UsageLines(lines, i - 1) = {} THEN ""
  ELSE lines[Last(UsageLines(lines, i - 1))].feature

CheckoutLines(lines) == {i \in DOMAIN lines : lines[i].k \in {"single", "multi"}}

Attribution(lines, i) == <<CurrentFeature(lines, i), lines[i].user, lines[i].version>>

RECURSIVE Attributed(_, _, _)
Attributed(lines, key, n) ==
  IF n = 0 THEN 0
  ELSE Attributed(lines, key, n - 1)
       + (IF n \in CheckoutLines(lines) /\ Attribution(lines, n) = key
          THEN (IF lines[n].k = "single" THEN 1 ELSE lines[n].count)
          ELSE 0)

RlmstatRead ==
  IF source.kind = "rlm" /\ Fetched /\ reply.stat.status = "ok"
  THEN reply.stat.lines ELSE <<>>

(* the header line nearest before line i, 0 when there is none             *)
HeaderOf(lines, i) ==
  LET S == {j \in 1..(i - 1) : lines[j].k = "feature"}
  IN  IF S = {} THEN 0 ELSE Last(S)

(* the usage lines under a header whose feature is not excluded            *)
PairedUsage(lines) ==
  {i \in DOMAIN lines : /\ lines[i].k = "usage"
                        /\ HeaderOf(lines, i) # 0
                        /\ ~Excluded(lines[HeaderOf(lines, i)].feature)}

PairKey(lines, i) ==
  <<lines[HeaderOf(lines, i)].feature, lines[HeaderOf(lines, i)].version>>

RECURSIVE PairedExpirations(_, _)
PairedExpirations(lines, n) ==
  IF n = 0 THEN <<>>
  ELSE PairedExpirations(lines, n - 1)
       \o (IF n \in PairedUsage(lines) /\ rlm_expiration(lines[n].exp) # Err
           THEN <<[feature |-> PairKey(lines, n)[1],
                   version |-> PairKey(lines, n)[2],
                   license_count |-> lines[n].count,
                   expiration |-> rlm_expiration(lines[n].exp)[1]]>>
           ELSE <<>>)

(***************************************************************************)
(* C25.  RLM header/usage pairing: a usage line belongs to the header line *)
(* nearest before it; under a header that is not excluded it gives the     *)
(* issued and used gauges of the header's feature and version its count    *)
(* and inuse, and an expiration record with its count and the epoch of its *)
(* date; a usage line without a header before it, or under an excluded     *)
(* header, gives nothing.                                                  *)
(* Refuted: a usage line whose date does not parse gives no usage either.  *)
(***************************************************************************)
RlmPairing ==
  (Fetched /\ source.kind = "rlm") =>
  LET lines == RlmstatRead
      kept == PairedUsage(lines)
  IN  /\ DOMAIN snapshot.issued = {PairKey(lines, i) : i \in kept}
      /\ DOMAIN snapshot.used = {PairKey(lines, i) : i \in kept}
      /\ \A i \in kept :
           LET last == Last({k \in kept : PairKey(lines, k) = PairKey(lines, i)})
           IN  /\ snapshot.issued[PairKey(lines, i)] = lines[last].count
               /\ snapshot.used[PairKey(lines, i)] = lines[last].inuse
      /\ snapshot.expiring = PairedExpirations(lines, Len(lines))

(***************************************************************************)
(* A body made of objects, separated by commas, with comments and line     *)
(* breaks between them: Ok(the objects in their order), or Err for a body  *)
(* that is not of that form.  mode is "start" before the first object,     *)
(* "need" after a comma, "after" behind an object, "object" inside one and *)
(* "comment" inside a comment (back is the mode to go back to).            *)
(***************************************************************************)
RECURSIVE Interleaved(_, _, _, _, _)
Interleaved(body, mode, back, object, objects) ==
  IF body = <<>>
  THEN IF mode \in {"start", "after"} THEN Ok(objects) ELSE Err
  ELSE LET piece == Head(body)
           rest == Tail(body)
       IN  CASE mode = "comment" ->
                  IF piece = "*/" THEN Interleaved(rest, back, back, object, objects)
                  ELSE Interleaved(rest, mode, back, object, objects)
             [] mode = "object" ->
                  IF piece = "}"
                  THEN Interleaved(rest, "after", back, <<>>, Append(objects, object))
                  ELSE IF piece \in {"x", "/*", "*/"}
                  THEN Interleaved(rest, mode, back, Append(object, piece), objects)
                  ELSE Err
             [] OTHER ->
                  IF piece \in {CR, LF} THEN Interleaved(rest, mode, back, object, objects)
                  ELSE IF piece = "/*"
                  THEN Interleaved(rest, "comment", mode, object, objects)
                  ELSE IF piece = "{" /\ mode # "after"
                  THEN Interleaved(rest, "object", back, <<>>, objects)
                  ELSE IF piece = "," /\ mode = "after"
                  THEN Interleaved(rest, "need", back, object, objects)
                  ELSE Err

ObjectsOf(body) == Interleaved(body, "start", "start", <<>>, <<>>)

(***************************************************************************)
(* C26.  HASP massage: what massage returns has no CR and no LF and no     *)
(* comment left and is the rest between "[ " and " ]"; and a body made of  *)
(* k objects separated by commas, with comments and line breaks between    *)
(* them, decodes to these k objects in their order.                        *)
(* Refuted: the comment expression also matches from a comment mark inside *)
(* a string value of an object to the end of the next comment.             *)
(***************************************************************************)
HaspMassageDecodes ==
  output.done =>
    /\ output.massaged = <<"[ ">> \o replace_all(unbroken(input)) \o <<" ]">>
    /\ \A i \in DOMAIN output.massaged : output.massaged[i] \notin {CR, LF}
    /\ \A i, j \in DOMAIN output.massaged :
         ~(i < j /\ output.massaged[i] = "/*" /\ output.massaged[j] = "*/")
    /\ ObjectsOf(input) # Err =>
         /\ output.features # Err
         /\ Len(output.features[1]) = Len(ObjectsOf(input)[1])
         /\ \A i \in DOMAIN ObjectsOf(input)[1] :
              LET object == ObjectsOf(input)[1][i] IN
              (\A k \in DOMAIN object : object[k] = "x")
                => output.features[1][i] = object

(***************************************************************************)
(* The report a Licman20 fetch went through.                               *)
(***************************************************************************)
Licman20Read ==
  IF source.kind = "licman20" /\ Fetched /\ reply.cmd.status = "ok"
  THEN reply.cmd.lines ELSE <<>>

KeyLines(lines) == {j \in DOMAIN lines : lines[j].k = "key"}

(* the i-th element of a set of line numbers                               *)
Nth(S, i) == CHOOSE j \in S : Cardinality({k \in S : k <= j}) = i

(* where the entry of the i-th "Product key" line ends: before the next    *)
(* such line, or at the end of the report                                  *)
EntryEnd(lines, i) ==
  IF i < Cardinality(KeyLines(lines)) THEN Nth(KeyLines(lines), i + 1) - 1
  ELSE Len(lines)

(* the comment read last up to line n                                      *)
CommentAt(lines, n) ==
  LET S == {j \in 1..n : lines[j].k = "comment"}
  IN  IF S = {} THEN "" ELSE lines[Last(S)].feature

(***************************************************************************)
(* C27.  Licman20 flush-on-repeat: a report yields as many license records *)
(* as it has "Product key" lines, the i-th record with the i-th product    *)
(* key, in the order of the report; a record is pushed when the next       *)
(* "Product key" line comes, the last one at the end of the report, so it  *)
(* holds what was read up to there; no record without a "Product key"      *)
(* line.                                                                   *)
(***************************************************************************)
Licman20FlushOnRepeat ==
  (Fetched /\ source.kind = "licman20" /\ reply.cmd.status = "ok") =>
  LET lines == Licman20Read
      records == snapshot.expiring
  IN  /\ Len(records) = Cardinality(KeyLines(lines))
      /\ \A i \in DOMAIN records :
           /\ records[i].product_key = lines[Nth(KeyLines(lines), i)].product_key
           /\ records[i].feature = CommentAt(lines, EntryEnd(lines, i))

(* two "Product key" lines and a comment behind the second: two records,   *)
(* the comment in the second only                                          *)
Licman20FlushOnRepeatWitness ==
  /\ source.kind = "licman20"
  /\ snapshot.result = "Ok"
  /\ Len(reply.cmd.lines) = 3
  /\ reply.cmd.lines[1].k = "key"
  /\ reply.cmd.lines[2].k = "key"
  /\ reply.cmd.lines[1].product_key # reply.cmd.lines[2].product_key
  /\ reply.cmd.lines[3].k = "comment"
  /\ Len(snapshot.expiring) = 2
  /\ snapshot.expiring[1].feature = ""
  /\ snapshot.expiring[2].feature = reply.cmd.lines[3].feature

(***************************************************************************)
(* C28 (LM-X XML walk).                                                    *)
(***************************************************************************)
(* The licstatxml documents the servers of an LM-X fetch answered with     *)
(* that are well-formed and whose counts are numbers.                      *)
LmxAnswered ==
  {reply.cmds[i].lines : i \in {j \in DOMAIN reply.cmds :
                                  /\ reply.cmds[j].status = "ok"
                                  /\ reply.cmds[j].lines.xml = "ok"}}

(* The record parse_xml is said to return for one FEATURE element.         *)
LmxRecordOf(element) ==
  [feature |-> element.NAME, version |-> element.VERSION,
   vendor |-> element.VENDOR, expiration_str |-> element.END,
   used |-> element.USED_LICENSES, total |-> element.TOTAL_LICENSES,
   denied |-> element.DENIED_LICENSES,
   checkouts |-> [i \in DOMAIN element.USER |->
                    [user |-> element.USER[i].NAME,
                     used |-> element.USER[i].USED_LICENSES]]]

(***************************************************************************)
(* C28: for every well-formed licstatxml document parse_xml returns        *)
(* exactly one feature record per FEATURE element, the only one and the    *)
(* last one included, in document order, each with the attributes of its   *)
(* element and exactly the checkouts of the USER elements nested in it.    *)
(* Refuted: parse_xml pushes a record only when the NAME attribute of the  *)
(* next FEATURE element is read, and nothing at the end of the document.   *)
(***************************************************************************)
LmxXmlWalk ==
  (Fetched /\ source.kind = "lmx") =>
  \A doc \in LmxAnswered :
    LET features == lmx_parse_xml(doc)[1].features
    IN  /\ Len(features) = Len(doc.FEATURE)
        /\ \A i \in DOMAIN features : features[i] = LmxRecordOf(doc.FEATURE[i])

(* What does hold: the records are those of all FEATURE elements but the   *)
(* last, in document order.                                                *)
LmxXmlWalkButLast ==
  (Fetched /\ source.kind = "lmx") =>
  \A doc \in LmxAnswered :
    LET features == lmx_parse_xml(doc)[1].features
    IN  /\ Len(features) = (IF doc.FEATURE = <<>> THEN 0 ELSE Len(doc.FEATURE) - 1)
        /\ \A i \in DOMAIN features : features[i] = LmxRecordOf(doc.FEATURE[i])

(***************************************************************************)
(* olicense.rs, parse_xml event by event                                   *)
(*                                                                         *)
(* The reader yields the document as events: Start and End for an element  *)
(* with content, Empty for an empty-element tag, Text for a text node      *)
(* (trim_text drops the white space between elements).  input is the       *)
(* event sequence of a well-formed document, output the state of           *)
(* parse_xml: the position of the reader, xml_tag, feature, result and,    *)
(* once it returned, how.                                                  *)
(***************************************************************************)
MaxLicenses == 2
MaxChildren == 2

OLIC_TAG_NAME == 1
OLIC_TAG_MODULE == 2
OLIC_TAG_MODULE_NAME == 3
OLIC_TAG_VENDOR == 4
OLIC_TAG_TOTAL == 5
OLIC_TAG_USED == 6
OLIC_TAG_EXPIRATION_DATE == 7
OLIC_TAG_SERVER_VERSION == 8
OLIC_TAG_CHECKOUTS == 9
OLIC_TAG_VERSION_RANGE == 10

Start(tag) == [e |-> "Start", v |-> tag]
Empty(tag) == [e |-> "Empty", v |-> tag]
End(tag) == [e |-> "End", v |-> tag]
Text(value) == [e |-> "Text", v |-> value]

Element(tag, value) == <<Start(tag), Text(value), End(tag)>>

(* The children a license element is drawn from: the elements parse_xml    *)
(* knows, an element it does not know (id), elements without content, and  *)
(* a module with and without a child before its name.                      *)
OlicenseChildren ==
  {Element("name", "fA"), <<Empty("name")>>, Element("id", "7"),
   <<Start("module")>> \o Element("name", "m1") \o <<End("module")>>,
   <<Start("module")>> \o Element("id", "7") \o Element("name", "m1")
     \o <<End("module")>>,
   Element("licenser", "vend"), Element("floatCount", "2"),
   Element("floatsLocked", "1"),
   Element("expiration", "2030-12-31"), Element("expiration", "2030-13-31"),
   Element("floatsLockedBy", "u1@h1 #1"), <<Empty("floatsLockedBy")>>,
   Element("versionRange", "1.0")}

RECURSIVE Concat(_)
Concat(seqs) == IF seqs = <<>> THEN <<>> ELSE Head(seqs) \o Concat(Tail(seqs))

OlicenseLicenses ==
  {<<Empty("license")>>}
  \cup {<<Start("license")>> \o Concat(c) \o <<End("license")>> :
          c \in SeqsUpTo(OlicenseChildren, MaxChildren)}

OlicenseEvents ==
  {<<Start("LicenseStatus")>> \o v \o Concat(l) \o <<End("LicenseStatus")>> :
     v \in {<<>>, Element("serverVersion", "4.8")},
     l \in SeqsUpTo(OlicenseLicenses, MaxLicenses)}

(* OLicenseFeature::new, lines 103-117; OLicenseData::new, lines 67-74 *)
OLicenseFeature_new ==
  [name |-> "", module |-> "", vendor |-> "", total |-> 0, used |-> 0,
   expiration_date |-> "", expiration |-> 0, checkouts |-> <<>>,
   version_range |-> ""]

OLicenseData_new == [server_version |-> "", features |-> <<>>]

(* str::parse::<i64> *)
olicense_parse_i64(value) ==
  CASE value = "1" -> Ok(1)
    [] value = "2" -> Ok(2)
    [] value = "7" -> Ok(7)
    [] OTHER -> Err

(* raw.split(',') and RE_CHECKOUT of parse_checkouts, lines 496-506: the   *)
(* entries of the list that have the form user@host #count.                *)
olicense_split_checkouts(value) ==
  IF value = "u1@h1 #1" THEN <<[user |-> "u1", host |-> "h1", count |-> 1]>>
  ELSE <<>>

(* lines 376-383 *)
Reading ==
  [done |-> FALSE, returned |-> "", pos |-> 1, xml_tag |-> 0,
   feature |-> OLicenseFeature_new, result |-> OLicenseData_new]

OlicenseXmlInit ==
  /\ Quiet
  /\ input \in OlicenseEvents
  /\ output = Reading

(* What read_event_into yields next. *)
Event == IF output.pos \in DOMAIN input THEN input[output.pos] ELSE [e |-> "Eof", v |-> ""]

(* Event::Start | Event::Empty, lines 387-427 *)
olicense_start_tag(tag, xml_tag) ==
  CASE tag = "serverVersion" -> OLIC_TAG_SERVER_VERSION
    [] tag = "name" -> IF xml_tag = OLIC_TAG_MODULE THEN OLIC_TAG_MODULE_NAME
                       ELSE OLIC_TAG_NAME
    [] tag = "module" -> OLIC_TAG_MODULE
    [] tag = "licenser" -> OLIC_TAG_VENDOR
    [] tag = "floatCount" -> OLIC_TAG_TOTAL
    [] tag = "floatsLocked" -> OLIC_TAG_USED
    [] tag = "expiration" -> OLIC_TAG_EXPIRATION_DATE
    [] tag = "floatsLockedBy" -> OLIC_TAG_CHECKOUTS
    [] tag = "versionRange" -> OLIC_TAG_VERSION_RANGE
    [] OTHER -> xml_tag

parse_xml_start ==
  /\ ~output.done
  /\ Event.e \in {"Start", "Empty"}
  /\ output' = [output EXCEPT
                  !.pos = @ + 1,
                  !.xml_tag = olicense_start_tag(Event.v, @),
                  !.feature = IF Event.v = "license" THEN OLicenseFeature_new ELSE @]
  /\ UNCHANGED <<input, others>>

(* Event::End, lines 428-435 *)
parse_xml_end ==
  /\ ~output.done
  /\ Event.e = "End"
  /\ output' = [output EXCEPT
                  !.pos = @ + 1,
                  !.result.features = IF Event.v = "license"
                                      THEN Append(@, output.feature) ELSE @,
                  !.xml_tag = 0]
  /\ UNCHANGED <<input, others>>

(* the arms of match xml_tag, lines 438-480: the feature and the server    *)
(* version after the text, or Err where ? or bail! leaves parse_xml.       *)
olicense_text(xml_tag, value, feature, server_version) ==
  LET number == olicense_parse_i64(value)
      expiration == parse_from_str(Midnight(value), "%Y-%m-%d %H:%M:%S")
      kept(f) == Ok([feature |-> f, server_version |-> server_version])
  IN  CASE xml_tag = OLIC_TAG_NAME -> kept([feature EXCEPT !.name = value])
        [] xml_tag = OLIC_TAG_MODULE_NAME -> kept([feature EXCEPT !.module = value])
        [] xml_tag = OLIC_TAG_USED ->
             IF number = Err THEN Err ELSE kept([feature EXCEPT !.used = number[1]])
        [] xml_tag = OLIC_TAG_TOTAL ->
             IF number = Err THEN Err ELSE kept([feature EXCEPT !.total = number[1]])
        [] xml_tag = OLIC_TAG_VENDOR -> kept([feature EXCEPT !.vendor = value])
        [] xml_tag = OLIC_TAG_EXPIRATION_DATE ->
             IF expiration = Err THEN Err
             ELSE kept([feature EXCEPT !.expiration_date = value,
                                       !.expiration = expiration[1]])
        [] xml_tag = OLIC_TAG_SERVER_VERSION ->
             Ok([feature |-> feature, server_version |-> value])
        [] xml_tag = OLIC_TAG_CHECKOUTS ->
             kept([feature EXCEPT !.checkouts =
                     olicense_parse_checkouts(olicense_split_checkouts(value))])
        [] xml_tag = OLIC_TAG_VERSION_RANGE ->
             kept([feature EXCEPT !.version_range = value])
        [] OTHER -> kept(feature)

(* Event::Text, lines 436-481 *)
parse_xml_text ==
  /\ ~output.done
  /\ Event.e = "Text"
  /\ LET stored == olicense_text(output.xml_tag, Event.v, output.feature,
                                 output.result.server_version)
     IN  output' = IF stored = Err
                   THEN [output EXCEPT !.done = TRUE, !.returned = "Err"]
                   ELSE [output EXCEPT !.pos = @ + 1,
                                       !.feature = stored[1].feature,
                                       !.result.server_version =
                                          stored[1].server_version]
  /\ UNCHANGED <<input, others>>

(* Event::Eof, lines 482-484, and Ok(result), line 492 *)
parse_xml_eof ==
  /\ ~output.done
  /\ Event.e = "Eof"
  /\ output' = [output EXCEPT !.done = TRUE, !.returned = "Ok"]
  /\ UNCHANGED <<input, others>>

OlicenseXmlNext ==
  \/ parse_xml_start
  \/ parse_xml_end
  \/ parse_xml_text
  \/ parse_xml_eof

OlicenseXmlSpec == OlicenseXmlInit /\ [][OlicenseXmlNext]_vars

(***************************************************************************)
(* C29 (OLicense XML state machine).                                       *)
(***************************************************************************)
(* The elements of the document that are open where the reader stands      *)
(* after n events, outermost first.                                        *)
RECURSIVE OpenTags(_, _)
OpenTags(events, n) ==
  IF n = 0 THEN <<>>
  ELSE LET open == OpenTags(events, n - 1)
       IN  CASE events[n].e = "Start" -> Append(open, events[n].v)
             [] events[n].e = "End" -> SubSeq(open, 1, Len(open) - 1)
             [] OTHER -> open

Open == OpenTags(input, output.pos - 1)

(* The field the innermost open element selects: a name inside a module is *)
(* the module name; an element parse_xml does not know selects none.       *)
SelectedBy(open) ==
  IF open = <<>> THEN 0
  ELSE LET tag == open[Len(open)]
           parent == IF Len(open) > 1 THEN open[Len(open) - 1] ELSE ""
       IN  CASE tag = "name" /\ parent = "module" -> OLIC_TAG_MODULE_NAME
             [] tag = "name" /\ parent # "module" -> OLIC_TAG_NAME
             [] tag = "licenser" -> OLIC_TAG_VENDOR
             [] tag = "floatCount" -> OLIC_TAG_TOTAL
             [] tag = "floatsLocked" -> OLIC_TAG_USED
             [] tag = "expiration" -> OLIC_TAG_EXPIRATION_DATE
             [] tag = "floatsLockedBy" -> OLIC_TAG_CHECKOUTS
             [] tag = "versionRange" -> OLIC_TAG_VERSION_RANGE
             [] tag = "serverVersion" -> OLIC_TAG_SERVER_VERSION
             [] OTHER -> 0

(* a record is pushed at the end tag of a license element and nowhere else *)
RecordAtEndTag ==
  output'.result.features =
    IF Event = End("license") THEN Append(output.result.features, output.feature)
    ELSE output.result.features

(* a text node goes into the field its open element selects *)
TextStored ==
  Event.e = "Text" =>
    LET said == olicense_text(SelectedBy(Open), Event.v, output.feature,
                              output.result.server_version)
    IN  IF said = Err THEN output'.returned = "Err"
        ELSE /\ output'.returned = ""
             /\ output'.feature = said[1].feature
             /\ output'.result.server_version = said[1].server_version

ClearedAtEndTag == Event.e = "End" => output'.xml_tag = 0

(* a license element starts with an empty record *)
FreshAtLicense ==
  (Event.e \in {"Start", "Empty"} /\ Event.v = "license") =>
    output'.feature = OLicenseFeature_new

AsSaid == RecordAtEndTag /\ TextStored /\ ClearedAtEndTag /\ FreshAtLicense

(***************************************************************************)
(* C29: parse_xml produces exactly one feature record per license element, *)
(* at its end tag; each text node is stored into the field selected by the *)
(* tag that is open where it stands (name, module name, licenser,          *)
(* floatCount, floatsLocked, expiration, floatsLockedBy, versionRange,     *)
(* serverVersion); the current-tag state is cleared at every end tag; a    *)
(* record holds no value of an earlier license element.                    *)
(* Refuted: xml_tag is the last known start tag since the last end tag,    *)
(* which is not the open element after an empty-element tag or after the   *)
(* end tag of a child of module.                                           *)
(***************************************************************************)
OlicenseXmlStateMachine == [][output' # output => AsSaid]_vars

(* A document without empty-element tags in which the name of a module is  *)
(* its first child.                                                        *)
Plain(events) ==
  \A i \in DOMAIN events :
    /\ events[i].e # "Empty"
    /\ (events[i] = Start("name") /\ i > 2 /\ events[i - 1].e = "End")
         => "module" \notin Range(OpenTags(events, i - 1))

(* What does hold: on plain documents parse_xml is the machine of C29.     *)
OlicenseXmlStateMachinePlain ==
  [][(output' # output /\ Plain(input)) => AsSaid]_vars

(***************************************************************************)
(* dsls.rs, the first loop of fetch over the transcripts of the servers    *)
(*                                                                         *)
(* input is the transcripts the servers of a list answered with, in the    *)
(* order they were asked; besides the lines of the framing a transcript    *)
(* may hold other lines (the banner of the tool, the echoed connect)       *)
(* before the echoed getLicenseUsage, and it may end before the echoed     *)
(* quit.  output is what the loop leaves behind.                           *)
(***************************************************************************)
MaxTranscripts == 2
MaxPre == 2
MaxCsv == 2

DslsBanner == [k |-> "other"]

DslsTranscripts ==
  {DslsOutput(f, csv) :
     f \in [pre : SeqsUpTo({DslsVersion, DslsReady("yes"), DslsBanner}, MaxPre),
            marker : BOOLEAN, quit : BOOLEAN],
     csv \in SeqsUpTo({[k |-> "usage", feature |-> "fA", count |-> 2, inuse |-> 1,
                        user |-> <<"u1">>], DslsBanner}, MaxCsv)}

DslsServerNames == <<"s1", "s2", "s3">>

(* lines 95-96 and the collections declared at 81-83 *)
dsls_before_loop ==
  [csv_mode |-> FALSE, features_exported |-> FALSE,
   server_version |-> <<>>, server_status |-> <<>>,
   license_data |-> <<>>, exported |-> <<>>, queried |-> <<>>,
   failed |-> FALSE]

DslsCsvInit ==
  /\ Quiet
  /\ input \in UNION {[1..k -> DslsTranscripts] : k \in 1..MaxTranscripts}
  /\ output = NotCalled

(* for (server, port) in &server_port, lines 98-190, every command having  *)
(* exited normally                                                         *)
DslsRead ==
  /\ ~output.done
  /\ output' = [done |-> TRUE,
                acc |-> dsls_servers(SubSeq(DslsServerNames, 1, Len(input)),
                                     [i \in DOMAIN input |-> CommandOk(input[i])],
                                     dsls_before_loop)]
  /\ UNCHANGED <<input, others>>

DslsCsvNext == DslsRead

DslsCsvSpec == DslsCsvInit /\ [][DslsCsvNext]_vars

(***************************************************************************)
(* C30 (DSLS CSV delimiting).                                              *)
(***************************************************************************)
(* The lines of one transcript that are said to be parsed as CSV records:  *)
(* those after the echoed getLicenseUsage and before the echoed quit that  *)
(* are neither the CSV header nor a version or status line.  exported      *)
(* tells whether an echoed quit was read before; the loop leaves a         *)
(* transcript at its status line then.  The result is the lines and        *)
(* whether an echoed quit was read up to the end.                          *)
RECURSIVE Between(_, _, _)
Between(lines, csv_mode, exported) ==
  IF lines = <<>> THEN [lines |-> <<>>, exported |-> exported]
  ELSE LET line == Head(lines)
           rest(m, x) == Between(Tail(lines), m, x)
       IN  CASE line.k = "ready" /\ exported -> [lines |-> <<>>, exported |-> exported]
             [] line.k = "marker" -> rest(TRUE, exported)
             [] line.k = "quit" -> rest(FALSE, TRUE)
             [] line.k \in {"usage", "other"} /\ csv_mode ->
                  [rest(csv_mode, exported) EXCEPT !.lines = <<line>> \o @]
             [] OTHER -> rest(csv_mode, exported)

(* The same for the transcripts of the servers: CSV mode is off at the     *)
(* start of each.                                                          *)
RECURSIVE BetweenAll(_, _)
BetweenAll(transcripts, exported) ==
  IF transcripts = <<>> THEN <<>>
  ELSE LET first == Between(Head(transcripts), FALSE, exported)
       IN  first.lines \o BetweenAll(Tail(transcripts), first.exported)

(* The lines of said up to the first that is no CSV record.                *)
RECURSIVE Records(_)
Records(said) ==
  IF said = <<>> \/ extract_data(Head(said)) = Err THEN <<>>
  ELSE <<extract_data(Head(said))[1]>> \o Records(Tail(said))

(***************************************************************************)
(* C30: a line of a transcript is parsed as a license-usage CSV record if  *)
(* and only if it lies between the line "admin >getLicenseUsage -csv" and  *)
(* the line "admin >quit" of the same server's transcript; CSV mode is off *)
(* at the start of every server's transcript, also when the transcript     *)
(* before it ended without the quit line.                                  *)
(* Refuted: csv_mode is declared before the loop over the servers and set  *)
(* to false only at a quit line.                                           *)
(***************************************************************************)
DslsCsvDelimiting ==
  output.done =>
    LET said == BetweenAll(input, FALSE)
    IN  /\ output.acc.failed = (\E i \in DOMAIN said : extract_data(said[i]) = Err)
        /\ ~output.acc.failed => output.acc.license_data = Records(said)

(* What does hold: the same when every transcript but the last ends with   *)
(* the quit line.                                                          *)
DslsCsvDelimitingAfterQuit ==
  (output.done /\ \A i \in 1..(Len(input) - 1) :
                    input[i] # <<>> /\ input[i][Len(input[i])].k = "quit") =>
    LET said == BetweenAll(input, FALSE)
    IN  /\ output.acc.failed = (\E i \in DOMAIN said : extract_data(said[i]) = Err)
        /\ ~output.acc.failed => output.acc.license_data = Records(said)

(***************************************************************************)
(* C31 (DSLS single payload).                                              *)
(***************************************************************************)
(***************************************************************************)
(* C31: a DSLS fetch that succeeds has asked every configured server and   *)
(* has taken license-usage records from the transcript of one server at    *)
(* most: once the records of one server were collected no record of a      *)
(* later transcript enters the totals or the per-user counts.              *)
(* Refuted: features_exported is set at the echoed quit only, so the       *)
(* records of the server after a transcript that ends early are collected  *)
(* as well.                                                                *)
(***************************************************************************)
DslsSinglePayload ==
  (Fetched /\ source.kind = "dsls" /\ snapshot.result = "Ok") =>
    /\ Range(snapshot.queried) = Range(source.license)
    /\ Len(snapshot.exported) <= 1

(* What does hold: the same when every transcript holds the echoed quit.   *)
DslsSinglePayloadAfterQuit ==
  (/\ Fetched /\ source.kind = "dsls" /\ snapshot.result = "Ok"
   /\ \A i \in DOMAIN reply.cmds :
        \E j \in DOMAIN reply.cmds[i].lines : reply.cmds[i].lines[j].k = "quit") =>
    /\ Range(snapshot.queried) = Range(source.license)
    /\ Len(snapshot.exported) <= 1

(***************************************************************************)
(* C32 (FlexLM dual expiration grammar).                                   *)
(***************************************************************************)
(* The FeatureExpiration entries the lines of lmstat -i are said to yield: *)
(* one for each line, in either field order, whose expiration field is a   *)
(* date or a sentinel, with the expiration of its expiration field and the *)
(* vendor of its vendor field.                                             *)
RECURSIVE FlexlmDual(_)
FlexlmDual(lines) ==
  IF lines = <<>> THEN <<>>
  ELSE LET line == Head(lines)
           expiration == flexlm_expiration(line.expiration)
       IN  (IF expiration = Err THEN <<>>
            ELSE <<[feature |-> line.feature, version |-> line.version,
                    license_count |-> line.count, expiration |-> expiration[1],
                    vendor |-> line.vendor]>>)
           \o FlexlmDual(Tail(lines))

(***************************************************************************)
(* C32: every line of lmstat -i, in the field order feature, version,      *)
(* count, expiration, vendor or in the order feature, version, count,      *)
(* vendor, expiration, yields one FeatureExpiration whose expiration comes *)
(* from the expiration field and whose vendor comes from the vendor field, *)
(* for a dated and for a sentinel ("permanent") expiration alike.          *)
(* Refuted: a line of the second order whose expiration is "permanent"     *)
(* matches the expression of the first order, its vendor is read as the    *)
(* date and the line is dropped.                                           *)
(***************************************************************************)
FlexlmDualGrammar ==
  (/\ Fetched /\ source.kind = "flexlm" /\ snapshot.result = "Ok"
   /\ reply.exp # NotRun /\ reply.exp.status = "ok") =>
    snapshot.expiring = FlexlmDual(reply.exp.lines)

(* What does hold: the same when no line of the second order has an        *)
(* expiration without a hyphen.                                            *)
FlexlmDualGrammarDated ==
  (/\ Fetched /\ source.kind = "flexlm" /\ snapshot.result = "Ok"
   /\ reply.exp # NotRun /\ reply.exp.status = "ok"
   /\ \A i \in DOMAIN reply.exp.lines :
        reply.exp.lines[i].k = "alt" => ~is_word(reply.exp.lines[i].expiration)) =>
    snapshot.expiring = FlexlmDual(reply.exp.lines)

(***************************************************************************)
(* C34 (per-user export flag).                                             *)
(*                                                                         *)
(* C34: in every adapter a fetch writes per-user checkout gauges only when *)
(* the export_user flag of the source is set to true; with the flag absent *)
(* or set to false no per-user gauge is written.                           *)
(* Refuted: flexlm.rs tests export_user.is_some(), which holds for false   *)
(* as well.                                                                *)
(***************************************************************************)
PerUserExportFlag ==
  (Fetched /\ source.export_user # "true") => snapshot.users = NoGauge

(* What does hold: the same for every adapter but FlexLM, and for FlexLM   *)
(* when the flag is absent.                                                *)
PerUserExportFlagButFlexlm ==
  (/\ Fetched /\ source.export_user # "true"
   /\ (source.kind = "flexlm" => source.export_user = "None")) =>
    snapshot.users = NoGauge

(***************************************************************************)
(* C33 (determinism).                                                      *)
(***************************************************************************)
(* The gauge series a fetch has written, with their values.                *)
Gauges(o) == <<o.issued, o.used, o.users, o.status, o.expiration, o.aggregated>>

(* What the servers of the fetch answered, each asked at its place in      *)
(* order.                                                                  *)
AnswersIn(answers, order) ==
  [i \in DOMAIN order |-> answers[IndexOf(reply.order, order[i])]]

(* A second run of the fetch with the same source and the same answer of   *)
(* each server, the server map yielding its keys in order.                 *)
Rerun(order) ==
  CASE source.kind = "lmx" ->
         lmx_fetch(source, order, AnswersIn(reply.cmds, order))
    [] source.kind = "olicense" ->
         olicense_fetch(source, order, AnswersIn(reply.replies, order))

(***************************************************************************)
(* C33: two runs of fetch with the same source configuration and the same  *)
(* transport outputs write the same gauge series with the same values,     *)
(* whatever order the server map yields its keys in (LM-X and OLicense;    *)
(* the maps of users and of expiration groups only decide the order in     *)
(* which series are set).                                                  *)
(* Refuted: the servers are asked in the order of the map, the first       *)
(* healthy one is exported and lmx.rs returns at the first failed command. *)
(***************************************************************************)
Determinism ==
  (Fetched /\ source.kind \in {"lmx", "olicense"}) =>
    \A order \in Orders(Range(source.license)) :
      Gauges(Rerun(order)) = Gauges(snapshot)

(* What does hold: the same when all servers gave the same answer.         *)
DeterminismEqualAnswers ==
  (/\ Fetched /\ source.kind \in {"lmx", "olicense"}
   /\ \A i, j \in DOMAIN reply.order :
        IF source.kind = "lmx" THEN reply.cmds[i] = reply.cmds[j]
        ELSE reply.replies[i] = reply.replies[j]) =>
    \A order \in Orders(Range(source.license)) :
      Gauges(Rerun(order)) = Gauges(snapshot)

(***************************************************************************)
(* C35 (Licman20 usage gauges).                                            *)
(***************************************************************************)
(* the "Number of Licenses" and the "In use" value read last up to line n  *)
TotalAt(lines, n) ==
  LET S == {j \in 1..n : lines[j].k = "total"}
  IN  IF S = {} THEN 0 ELSE lines[Last(S)].total

UsedAt(lines, n) ==
  LET S == {j \in 1..n : lines[j].k = "used"}
  IN  IF S = {} THEN 0 ELSE lines[Last(S)].used

(* the labels (feature, product key) of the i-th record of the report      *)
Licman20Labels(lines, i) ==
  <<CommentAt(lines, EntryEnd(lines, i)), lines[Nth(KeyLines(lines), i)].product_key>>

(***************************************************************************)
(* C35: after a Licman20 fetch that succeeded, for every record that is    *)
(* not excluded the issued gauge of the record's feature and product key   *)
(* holds its "Number of Licenses" value and the used gauge of the same     *)
(* labels holds its "In use" value (for labels that occur twice, the       *)
(* values of the record pushed last).                                      *)
(* Refuted: both values are set on LICMAN20_FEATURES_TOTAL, the used value *)
(* last.                                                                   *)
(***************************************************************************)
Licman20UsageGauges ==
  (/\ Fetched /\ source.kind = "licman20" /\ snapshot.result = "Ok"
   /\ reply.cmd.status = "ok") =>
    LET lines == Licman20Read
        n == Cardinality(KeyLines(lines))
    IN  \A i \in 1..n :
          LET labels == Licman20Labels(lines, i)
          IN  (/\ ~Excluded(labels[1])
               /\ \A j \in (i + 1)..n : Licman20Labels(lines, j) # labels) =>
                /\ labels \in DOMAIN snapshot.issued
                /\ snapshot.issued[labels] = TotalAt(lines, EntryEnd(lines, i))
                /\ labels \in DOMAIN snapshot.used
                /\ snapshot.used[labels] = UsedAt(lines, EntryEnd(lines, i))

(* What does hold: the issued gauge holds the "In use" value and no used   *)
(* gauge is written.                                                       *)
Licman20UsageGaugesInCode ==
  (/\ Fetched /\ source.kind = "licman20" /\ snapshot.result = "Ok"
   /\ reply.cmd.status = "ok") =>
    LET lines == Licman20Read
        n == Cardinality(KeyLines(lines))
    IN  /\ snapshot.used = NoGauge
        /\ \A i \in 1..n :
             LET labels == Licman20Labels(lines, i)
             IN  (/\ ~Excluded(labels[1])
                  /\ \A j \in (i + 1)..n : Licman20Labels(lines, j) # labels) =>
                   /\ labels \in DOMAIN snapshot.issued
                   /\ snapshot.issued[labels] = UsedAt(lines, EntryEnd(lines, i))

(***************************************************************************)
(* C36 (Licman20 record isolation).                                        *)
(***************************************************************************)
(* the lines of the i-th record: from its "Product key" line to the line   *)
(* before the next one, or to the end of the report                        *)
EntryLines(lines, i) == Nth(KeyLines(lines), i)..EntryEnd(lines, i)

(* The feature, the total and the expiration the i-th record is said to    *)
(* hold: the value read last among its own lines; what a fresh record      *)
(* holds when its lines give none.                                         *)
OwnFeature(lines, i) ==
  LET S == {j \in EntryLines(lines, i) : lines[j].k = "comment"}
  IN  IF S = {} THEN "" ELSE lines[Last(S)].feature

OwnTotal(lines, i) ==
  LET S == {j \in EntryLines(lines, i) : lines[j].k = "total"}
  IN  IF S = {} THEN 0 ELSE lines[Last(S)].total

OwnExpiration(lines, i) ==
  LET S == {j \in EntryLines(lines, i) :
              /\ lines[j].k = "end"
              /\ parse_from_str(Midnight(lines[j].end_date),
                                "%d-%b-%Y %H:%M:%S") # Err}
  IN  IF S = {} THEN 0
      ELSE parse_from_str(Midnight(lines[Last(S)].end_date),
                          "%d-%b-%Y %H:%M:%S")[1]

(***************************************************************************)
(* C36: the feature name, the total and the expiration of every Licman20   *)
(* record come from the lines between the record's "Product key" line and  *)
(* the next "Product key" line (or the end of the report) only; a label    *)
(* that is missing or unparsable in a record does not take the value seen  *)
(* in an earlier record.                                                   *)
(* Refuted: the variables the labels are read into are declared before the *)
(* loop and not cleared when a record is pushed.                           *)
(***************************************************************************)
Licman20RecordIsolation ==
  (Fetched /\ source.kind = "licman20" /\ reply.cmd.status = "ok") =>
    LET lines == Licman20Read
        records == snapshot.expiring
    IN  \A i \in DOMAIN records :
          i <= Cardinality(KeyLines(lines)) =>
            /\ records[i].feature = OwnFeature(lines, i)
            /\ records[i].license_count = OwnTotal(lines, i)
            /\ records[i].expiration = OwnExpiration(lines, i)

(* What does hold: the same for the first record of a report.              *)
Licman20RecordIsolationFirst ==
  (Fetched /\ source.kind = "licman20" /\ reply.cmd.status = "ok") =>
    LET lines == Licman20Read
        records == snapshot.expiring
    IN  (records # <<>> /\ lines[1].k = "key") =>
          /\ records[1].feature = OwnFeature(lines, 1)
          /\ records[1].license_count = OwnTotal(lines, 1)
          /\ records[1].expiration = OwnExpiration(lines, 1)

(***************************************************************************)
(* C37 (OLicense name disambiguation).                                     *)
(*                                                                         *)
(* C37: the text of a name element nested inside a module element is       *)
(* stored as the module name of the feature only and never overwrites the  *)
(* feature name, whatever children of module come before it.               *)
(* Refuted: the end tag of a child of module clears xml_tag, and the name  *)
(* element that follows is taken for the name of the license.              *)
(***************************************************************************)
OlicenseNameDisambiguation ==
  [][(/\ output' # output
      /\ Event.e = "Text"
      /\ Len(Open) > 1
      /\ Open[Len(Open)] = "name"
      /\ "module" \in Range(Open))
       => /\ output'.feature.module = Event.v
          /\ output'.feature.name = output.feature.name]_vars

(* What does hold: the same when the name element is the first child of    *)
(* module.                                                                 *)
OlicenseNameDisambiguationFirstChild ==
  [][(/\ output' # output
      /\ Event.e = "Text"
      /\ Len(Open) > 1
      /\ Open[Len(Open)] = "name"
      /\ "module" \in Range(Open)
      /\ input[output.pos - 2] = Start("module"))
       => /\ output'.feature.module = Event.v
          /\ output'.feature.name = output.feature.name]_vars

(***************************************************************************)
(* C38 (server status reflects the latest fetch).                          *)
(***************************************************************************)
(* The endpoints of the LM-X or OLicense source whose fetch has returned   *)
(* that the fetch asked and saw down.                                      *)
SeenDown ==
  IF /\ pc \in DOMAIN cfg
     /\ snapshot.result \in {"Ok", "Err"}
     /\ source.kind \in {"lmx", "olicense"}
  THEN {source.license[i] : i \in {j \in DOMAIN source.license :
                                     /\ source.license[j] \in Range(snapshot.queried)
                                     /\ ~Healthy(j)}}
  ELSE {}

(* The status series of a source that stand at 1 for a server.             *)
StandingUp(series, server) ==
  {l \in DOMAIN series.status : l[1] = server /\ series.status[l] = 1}

(***************************************************************************)
(* C38: over any sequence of fetches, after a fetch of an OLicense or LM-X *)
(* source in which an endpoint was seen down (failed transport, unparsable *)
(* reply or a status other than SUCCESS) no server-status series of that   *)
(* source and endpoint holds the value 1.                                  *)
(* Refuted: the version is a label of the series, a down server is written *)
(* under another version or not at all, and the series of the fetch before *)
(* is never removed.                                                       *)
(***************************************************************************)
StatusReflectsLatestFetch ==
  [][\A server \in SeenDown :
       pc' = pc + 1 => StandingUp(registry'[pc], server) = {}]_vars

(* What does hold: the same for the fetch that is the first to write a     *)
(* status of the source.                                                   *)
StatusReflectsFirstFetch ==
  [][\A server \in SeenDown :
       (pc' = pc + 1 /\ registry[pc].status = NoGauge)
         => StandingUp(registry'[pc], server) = {}]_vars

(***************************************************************************)
(* C39.  HASP status matches the fetch outcome: when the HASP fetch        *)
(* returns Ok the server-status gauge of the source is 1 at the end of the *)
(* fetch, and when the gauge is 0 at the end of the fetch the fetch        *)
(* returned an error; also when the sessions query fails after the feature *)
(* query succeeded.                                                        *)
(* Refuted: fetch_checkouts sets hasp_server_status to 0 when its GET or   *)
(* the decoding of its reply fails (hasp.rs lines 396-427) and returns the *)
(* error to fetch, which logs it and returns Ok(()) (lines 355-366).       *)
(***************************************************************************)
HaspStatus ==
  LET labels == <<source.license[1], "1947", "key">>
  IN  IF labels \in DOMAIN snapshot.status THEN snapshot.status[labels] ELSE -1

HaspFetched == source.kind = "hasp" /\ snapshot.result \in {"Ok", "Err"}

HaspStatusMatchesOutcome ==
  HaspFetched =>
    /\ snapshot.result = "Ok" => HaspStatus = 1
    /\ HaspStatus = 0 => snapshot.result = "Err"

(* what the code keeps: the status is that of the last query made, and the *)
(* outcome is that of the feature query                                    *)
HaspStatusMatchesFeatureQuery ==
  HaspFetched =>
    /\ snapshot.result = "Ok" =>
         HaspStatus = IF "checkouts" \in Range(snapshot.transports)
                         /\ reply.sess.status # "ok" THEN 0 ELSE 1
    /\ (HaspStatus = 0 /\ reply.feat.status = "ok") => snapshot.result = "Ok"
    /\ reply.feat.status # "ok" => (HaspStatus = 0 /\ snapshot.result = "Err")

(***************************************************************************)
(* C40 (usage survives a bad date).                                        *)
(***************************************************************************)
(* the HASP objects the loop gets to when only a date can stop it: those   *)
(* with no object before them that lacks logc, logl or lic                 *)
HaspReached(objects) ==
  {i \in DOMAIN objects :
     \A j \in 1..(i - 1) :
       (objects[j].fid # <<>> /\ ~Excluded(objects[j].fid[1])) =>
         (objects[j].logc # <<>> /\ objects[j].logl # <<>> /\ objects[j].lic # <<>>)}

(* The labels of the usage gauges of the records read by the fetch that    *)
(* are not excluded and whose expiration date cannot be parsed.            *)
BadDated ==
  CASE source.kind = "rlm" ->
         LET lines == RlmstatRead
         IN  {PairKey(lines, i) :
                i \in {k \in PairedUsage(lines) : rlm_expiration(lines[k].exp) = Err}}
    [] source.kind = "lmx" ->
         UNION {{<<doc.FEATURE[i].NAME>> :
                   i \in {k \in DOMAIN doc.FEATURE :
                            /\ ~Excluded(doc.FEATURE[k].NAME)
                            /\ parse_from_str(Midnight(doc.FEATURE[k].END),
                                              "%Y-%m-%d %H:%M:%S") = Err}} :
                doc \in {reply.cmds[s].lines :
                           s \in {t \in DOMAIN reply.cmds :
                                    reply.order[t] \in Range(snapshot.exported)}}}
    [] source.kind = "hasp" /\ reply.feat.status = "ok" ->
         LET objects == reply.feat.lines
         IN  {<<IF objects[i].fn = <<>> \/ objects[i].fn[1] = ""
                THEN objects[i].fid[1] ELSE objects[i].fn[1]>> :
                i \in {k \in HaspReached(objects) :
                         /\ objects[k].fid # <<>> /\ ~Excluded(objects[k].fid[1])
                         /\ objects[k].logc # <<>> /\ objects[k].logl # <<>>
                         /\ objects[k].lic # <<>>
                         /\ objects[k].lic[1] \notin {"", "Perpetual"}
                         /\ \/ hasp_captures(objects[k].lic[1]) = Err
                            \/ parse_from_str(hasp_captures(objects[k].lic[1])[1],
                                              "%a %b %d, %Y %H:%M") = Err}}
    [] source.kind = "licman20" ->
         LET lines == Licman20Read
         IN  {Licman20Labels(lines, i) :
                i \in {k \in 1..Cardinality(KeyLines(lines)) :
                         /\ ~Excluded(Licman20Labels(lines, k)[1])
                         /\ \E j \in EntryLines(lines, k) :
                              /\ lines[j].k = "end"
                              /\ parse_from_str(Midnight(lines[j].end_date),
                                                "%d-%b-%Y %H:%M:%S") = Err}}
    [] OTHER -> {}

(***************************************************************************)
(* C40: in the adapters that read usage and expiration from the same       *)
(* record (RLM, LM-X, HASP, Licman20), a record that is not excluded and   *)
(* whose expiration date cannot be parsed still has its issued and used    *)
(* counts exported.                                                        *)
(* Refuted: rlm.rs leaves the usage line at the date that does not parse,  *)
(* before it sets the two gauges (see C25); hasp.rs bails on a lic field   *)
(* without a date, lmx.rs never gets the last FEATURE element (see C28),   *)
(* licman20.rs sets no used gauge (see C35).                               *)
(***************************************************************************)
UsageSurvivesBadDate ==
  Fetched =>
    \A labels \in BadDated :
      labels \in DOMAIN snapshot.issued /\ labels \in DOMAIN snapshot.used

(* What does hold: the issued gauge of such a record of HASP and Licman20, *)
(* and of an LM-X element that is not the last of its document.            *)
UsageSurvivesBadDateInCode ==
  (Fetched /\ source.kind \in {"lmx", "hasp", "licman20"}) =>
    \A labels \in BadDated :
      \/ labels \in DOMAIN snapshot.issued
      \/ /\ source.kind = "lmx"
         /\ \E s \in DOMAIN reply.cmds :
              /\ reply.cmds[s].status = "ok" /\ reply.cmds[s].lines.xml = "ok"
              /\ reply.cmds[s].lines.FEATURE # <<>>
              /\ <<reply.cmds[s].lines.FEATURE[Len(reply.cmds[s].lines.FEATURE)].NAME>>
                   = labels
      \/ /\ source.kind = "hasp"
         /\ \E j \in DOMAIN reply.feat.lines :
              /\ reply.feat.lines[j].lic # <<>>
              /\ reply.feat.lines[j].lic[1] \notin {"", "Perpetual"}
              /\ hasp_captures(reply.feat.lines[j].lic[1]) = Err

=============================================================================
